---- MODULE Spec2Model ----
(***************************************************************************)
(* Model of src/src/utils.py: DataNormalizer, ViolationAnalyzer and        *)
(* ResponseComparator of the Dolos / Blockfrost response verifier.         *)
(*                                                                         *)
(* Values.  A JSON-like tree node is a record                              *)
(*     [t, k, m, e, s, kids]                                               *)
(* t    : the Python type name (NoneType, bool, int, float, str, dict,     *)
(*        list);                                                           *)
(* k,m,e: the number held by a bool, int or float.  k is "fin", "nan",     *)
(*        "inf" or "-inf"; a finite number is m * 10^e with m not          *)
(*        divisible by 10 (zero is m = 0, e = 0), so that two finite       *)
(*        numbers are equal exactly when their (m, e) are;                 *)
(* s    : the characters of a str, a sequence of one-character strings;    *)
(* kids : the items of a dict (in insertion order) or of a list, each a    *)
(*        record [k |-> key characters, v |-> node]; a list item has the   *)
(*        empty key.                                                       *)
(* Strings are sequences of characters so that int(), float(), lower(),    *)
(* the hex pattern and the substring tests are computed, not assumed.      *)
(***************************************************************************)
EXTENDS Integers, Sequences, FiniteSets, TLC

VARIABLES
    pc,             \* position of the caller: which calls have returned
    hashSeed,       \* the process's string-hash seed: fixes set iteration order
    normalize,      \* ResponseComparator.normalize
    data,           \* argument of DataNormalizer.normalize_all
    once,           \* normalize_all(data)
    twice,          \* normalize_all(normalize_all(data))
    response1,      \* arguments of ResponseComparator.compare
    response2,
    ignore_fields,
    is_identical,   \* first element of the tuple compare returned
    report,         \* second element of the tuple compare returned
    reportRev,      \* report of compare(response2, response1, ignore_fields)
    violations,     \* argument of ViolationAnalyzer.get_severity_score
    extra,          \* one more violation, appended to violations
    score,          \* get_severity_score(violations)
    shuffled,       \* the violations in another order
    scoreShuffled,  \* get_severity_score(shuffled)
    scoreExt,       \* get_severity_score(violations + [extra])
    reportAgain,    \* report of a later compare(response1, response2, ignore_fields)
    calls,          \* comparisons of other responses made in between
    violation_categories,   \* ViolationAnalyzer.violation_categories
    classified,     \* the violation handed to categorize_violation
    outcome,        \* what categorize_violation returned, or the error it raised
    item,           \* number of the test being run (request.node), 0 before the first
    dolos_response, \* what dolos_session.get returned to the test, or the error raised
    blockfrost_response,    \* the same for blockfrost_session.get
    comparisons,    \* calls of api_comparator.compare_responses made by the test
    rep_call,       \* item.rep_call: outcome of the test's call phase, if it ran
    violation_reporter,     \* the session's ViolationReporter: its three lists
    session_report, \* what generate_report returned
    report_file,    \* what generate_report wrote to violations_report.json
    history         \* what happened so far: call phases run, reporter methods called

vars == <<pc, hashSeed, normalize, data, once, twice, response1, response2,
          ignore_fields, is_identical, report, reportRev, violations, extra,
          score, shuffled, scoreShuffled, scoreExt, reportAgain, calls,
          violation_categories, classified, outcome, item, dolos_response,
          blockfrost_response, comparisons, rep_call, violation_reporter,
          session_report, report_file, history>>

\* The state of src/src/utils.py, and the state of the test session.
utilsVars == <<hashSeed, normalize, data, once, twice, response1, response2,
              ignore_fields, is_identical, report, reportRev, violations, extra,
              score, shuffled, scoreShuffled, scoreExt, reportAgain, calls,
              violation_categories, classified, outcome>>

testVars == <<item, dolos_response, blockfrost_response, comparisons, rep_call,
              violation_reporter, session_report, report_file, history>>

(***************************************************************************)
(* Characters and Python's str methods.                                    *)
(***************************************************************************)
DigitChars == <<"0", "1", "2", "3", "4", "5", "6", "7", "8", "9">>

UpperChars == <<"A", "B", "C", "D", "E", "F", "G", "H", "I", "J", "K", "L", "M",
                "N", "O", "P", "Q", "R", "S", "T", "U", "V", "W", "X", "Y", "Z">>

LowerChars == <<"a", "b", "c", "d", "e", "f", "g", "h", "i", "j", "k", "l", "m",
                "n", "o", "p", "q", "r", "s", "t", "u", "v", "w", "x", "y", "z">>

DigitSet == {DigitChars[i] : i \in DOMAIN DigitChars}
UpperSet == {UpperChars[i] : i \in DOMAIN UpperChars}

IsDigit(c) == c \in DigitSet

DigitVal(c) == (CHOOSE i \in DOMAIN DigitChars : DigitChars[i] = c) - 1

IsHexDigit(c) ==
    \/ IsDigit(c)
    \/ c \in {"a", "b", "c", "d", "e", "f", "A", "B", "C", "D", "E", "F"}

LowerChar(c) ==
    IF c \in UpperSet
    THEN LowerChars[CHOOSE i \in DOMAIN UpperChars : UpperChars[i] = c]
    ELSE c

\* str.lower()
Lower(s) == [i \in 1..Len(s) |-> LowerChar(s[i])]

\* pattern in text
Contains(text, pattern) ==
    \E i \in 1..(Len(text) - Len(pattern) + 1) :
        SubSeq(text, i, i + Len(pattern) - 1) = pattern

AllDigits(s) == \A i \in 1..Len(s) : IsDigit(s[i])

RECURSIVE DigitsValue(_)
DigitsValue(s) ==
    IF s = <<>> THEN 0
    ELSE 10 * DigitsValue(SubSeq(s, 1, Len(s) - 1)) + DigitVal(s[Len(s)])

HasSign(s) == s # <<>> /\ s[1] \in {"-", "+"}
Unsigned(s) == IF HasSign(s) THEN Tail(s) ELSE s
SignOf(s) == IF s # <<>> /\ s[1] = "-" THEN -1 ELSE 1

(***************************************************************************)
(* Numbers: m * 10^e, canonical when m is not divisible by 10.             *)
(***************************************************************************)
RECURSIVE Canon(_, _)
Canon(m, e) ==
    IF m = 0 THEN [m |-> 0, e |-> 0]
    ELSE IF m % 10 = 0 THEN Canon(m \div 10, e + 1)
    ELSE [m |-> m, e |-> e]

RECURSIVE Pow10(_)
Pow10(n) == IF n <= 0 THEN 1 ELSE 10 * Pow10(n - 1)

RECURSIVE NumDigits(_)
NumDigits(m) == IF m < 10 THEN 1 ELSE 1 + NumDigits(m \div 10)

Abs(x) == IF x < 0 THEN -x ELSE x

(***************************************************************************)
(* Tree nodes.                                                             *)
(***************************************************************************)
Node(t, k, m, e, s, kids) ==
    [t |-> t, k |-> k, m |-> m, e |-> e, s |-> s, kids |-> kids]

PyNone == Node("NoneType", "fin", 0, 0, <<>>, <<>>)
PyBool(b) == Node("bool", "fin", IF b THEN 1 ELSE 0, 0, <<>>, <<>>)
PyTrue == PyBool(TRUE)
PyFalse == PyBool(FALSE)
PyInt(n) == Node("int", "fin", Canon(n, 0).m, Canon(n, 0).e, <<>>, <<>>)
PyIntME(m, e) == Node("int", "fin", Canon(m, e).m, Canon(m, e).e, <<>>, <<>>)
PyFloat(m, e) == Node("float", "fin", Canon(m, e).m, Canon(m, e).e, <<>>, <<>>)
PyNaN == Node("float", "nan", 0, 0, <<>>, <<>>)
PyInf == Node("float", "inf", 0, 0, <<>>, <<>>)
PyNegInf == Node("float", "-inf", 0, 0, <<>>, <<>>)
PyStr(s) == Node("str", "fin", 0, 0, s, <<>>)
PyDict(items) == Node("dict", "fin", 0, 0, <<>>, items)
PyList(elems) ==
    Node("list", "fin", 0, 0, <<>>, [i \in 1..Len(elems) |-> [k |-> <<>>, v |-> elems[i]]])

Item(key, value) == [k |-> key, v |-> value]

\* type(obj).__name__
TypeName(x) == x.t

IsStr(x) == x.t = "str"
IsDictNode(x) == x.t = "dict"
IsListNode(x) == x.t = "list"

(***************************************************************************)
(* int(value) and float(value) on a str.  The model's strings hold no      *)
(* whitespace and no underscore, so int() accepts an optional sign and one *)
(* or more digits, and float() accepts                                     *)
(*   [sign] (digits [. [digits]] | . digits) [(e|E) [sign] digits]         *)
(* or, in any letter case, [sign] inf | infinity | nan.                    *)
(***************************************************************************)
IntParses(s) == Unsigned(s) # <<>> /\ AllDigits(Unsigned(s))

IntOf(s) == PyInt(SignOf(s) * DigitsValue(Unsigned(s)))

IsInfWord(s) ==
    Lower(Unsigned(s)) \in {<<"i", "n", "f">>, <<"i", "n", "f", "i", "n", "i", "t", "y">>}

IsNanWord(s) == Lower(Unsigned(s)) = <<"n", "a", "n">>

ExpMarks(body) == {i \in 1..Len(body) : body[i] \in {"e", "E"}}

Mantissa(body) ==
    IF ExpMarks(body) = {} THEN body
    ELSE SubSeq(body, 1, (CHOOSE i \in ExpMarks(body) : TRUE) - 1)

Exponent(body) ==
    IF ExpMarks(body) = {} THEN <<"0">>
    ELSE SubSeq(body, (CHOOSE i \in ExpMarks(body) : TRUE) + 1, Len(body))

Dots(mant) == {i \in 1..Len(mant) : mant[i] = "."}

IntPart(mant) ==
    IF Dots(mant) = {} THEN mant
    ELSE SubSeq(mant, 1, (CHOOSE i \in Dots(mant) : TRUE) - 1)

FracPart(mant) ==
    IF Dots(mant) = {} THEN <<>>
    ELSE SubSeq(mant, (CHOOSE i \in Dots(mant) : TRUE) + 1, Len(mant))

DecimalParses(body) ==
    /\ Cardinality(ExpMarks(body)) <= 1
    /\ IntParses(Exponent(body))
    /\ Cardinality(Dots(Mantissa(body))) <= 1
    /\ AllDigits(IntPart(Mantissa(body)))
    /\ AllDigits(FracPart(Mantissa(body)))
    /\ Len(IntPart(Mantissa(body))) + Len(FracPart(Mantissa(body))) >= 1

FloatParses(s) == IsInfWord(s) \/ IsNanWord(s) \/ DecimalParses(Unsigned(s))

\* Largest and smallest decimal exponent of a finite, nonzero double.
DblMaxExp10 == 308
DblMinExp10 == -324

DecimalOf(s) ==
    LET body == Unsigned(s)
        mant == Mantissa(body)
        ex == Exponent(body)
        c == Canon(SignOf(s) * DigitsValue(IntPart(mant) \o FracPart(mant)),
                   SignOf(ex) * DigitsValue(Unsigned(ex)) - Len(FracPart(mant)))
        mag == NumDigits(Abs(c.m)) + c.e - 1
    IN  IF c.m # 0 /\ mag > DblMaxExp10 THEN (IF c.m < 0 THEN PyNegInf ELSE PyInf)
        ELSE IF c.m # 0 /\ mag < DblMinExp10 THEN PyFloat(0, 0)
        ELSE PyFloat(c.m, c.e)

FloatOf(s) ==
    IF IsNanWord(s) THEN PyNaN
    ELSE IF IsInfWord(s) THEN (IF SignOf(s) < 0 THEN PyNegInf ELSE PyInf)
    ELSE DecimalOf(s)

\* float.is_integer()
is_integer(f) == f.k = "fin" /\ f.e >= 0

\* int(float_val) for an integral float
IntOfFloat(f) == PyIntME(f.m, f.e)

(***************************************************************************)
(* DataNormalizer                                                          *)
(***************************************************************************)
\* Every numeric string becomes a float: no int() first, no int(float_val).
normalize_numeric_strings_float(value) ==
    IF IsStr(value) /\ FloatParses(value.s) THEN FloatOf(value.s) ELSE value

normalize_numeric_strings(value) ==
    IF ~IsStr(value) THEN value
    ELSE IF /\ ~Contains(value.s, <<".">>)
            /\ ~Contains(Lower(value.s), <<"e">>)
            /\ IntParses(value.s)
         THEN IntOf(value.s)
    ELSE IF FloatParses(value.s)
         THEN IF is_integer(FloatOf(value.s))
              THEN IntOfFloat(FloatOf(value.s))
              ELSE FloatOf(value.s)
    ELSE value

\* No lowercasing.
normalize_hex_strings_none(value) == value

\* A pattern that matches every str: all strings are lowercased.
normalize_hex_strings_any(value) ==
    IF IsStr(value) THEN PyStr(Lower(value.s)) ELSE value

normalize_hex_strings(value) ==
    IF IsStr(value) /\ value.s # <<>> /\ \A i \in 1..Len(value.s) : IsHexDigit(value.s[i])
    THEN PyStr(Lower(value.s))
    ELSE value

normalize_boolean_strings(value) ==
    IF IsStr(value)
    THEN IF Lower(value.s) \in {<<"t", "r", "u", "e">>, <<"y", "e", "s">>, <<"1">>}
         THEN PyTrue
         ELSE IF Lower(value.s) \in {<<"f", "a", "l", "s", "e">>, <<"n", "o">>, <<"0">>}
         THEN PyFalse
         ELSE value
    ELSE value

normalize_null_values(value) ==
    IF \/ value = PyNone
       \/ /\ IsStr(value)
          /\ value.s \in {<<>>, <<"n", "u", "l", "l">>, <<"N", "o", "n", "e">>}
    THEN PyNone
    ELSE value

\* Numeric coercion moved in front of the boolean rule.
NormalizeLeaf_numeric_first(leafValue) ==
    normalize_hex_strings(
        normalize_boolean_strings(
            normalize_numeric_strings(
                normalize_null_values(leafValue))))

NormalizeLeaf(leafValue) ==
    normalize_hex_strings(
        normalize_numeric_strings(
            normalize_boolean_strings(
                normalize_null_values(leafValue))))

\* No descent: a dict or a list is returned as it is.
normalize_all_shallow(d) ==
    IF IsDictNode(d) \/ IsListNode(d) THEN d ELSE NormalizeLeaf(d)

RECURSIVE normalize_all(_)
normalize_all(d) ==
    IF IsDictNode(d)
    THEN PyDict([i \in 1..Len(d.kids) |-> Item(d.kids[i].k, normalize_all(d.kids[i].v))])
    ELSE IF IsListNode(d)
    THEN PyList([i \in 1..Len(d.kids) |-> normalize_all(d.kids[i].v)])
    ELSE NormalizeLeaf(d)

(***************************************************************************)
(* ViolationAnalyzer.  A violation is a record [type, path, details]; a    *)
(* record handed to the analyzer by another caller may lack any of the     *)
(* three keys (dict.get with a default).                                   *)
(***************************************************************************)
Chars_hash == <<"h", "a", "s", "h">>
Chars_id == <<"i", "d">>
Chars_address == <<"a", "d", "d", "r", "e", "s", "s">>
Chars_amount == <<"a", "m", "o", "u", "n", "t">>
Chars_quantity == <<"q", "u", "a", "n", "t", "i", "t", "y">>
Chars_epoch == <<"e", "p", "o", "c", "h">>
Chars_slot == <<"s", "l", "o", "t">>
Chars_block == <<"b", "l", "o", "c", "k">>
Chars_tx_index == <<"t", "x", "_", "i", "n", "d", "e", "x">>

required_patterns == {Chars_hash, Chars_id, Chars_address}

critical_patterns ==
    {Chars_hash, Chars_id, Chars_address, Chars_amount, Chars_quantity,
     Chars_epoch, Chars_slot, Chars_block, Chars_tx_index}

\* The critical test run against the required patterns.
is_critical_field_short(path) ==
    LET lowered == Lower(path)
    IN  \E pattern \in required_patterns : Contains(lowered, pattern)

is_critical_field(path) ==
    LET lowered == Lower(path)
    IN  \E pattern \in critical_patterns : Contains(lowered, pattern)

\* The required test run against the critical patterns.
is_required_field_wide(path) ==
    LET lowered == Lower(path)
    IN  \E pattern \in critical_patterns : Contains(lowered, pattern)

is_required_field(path) ==
    LET lowered == Lower(path)
    IN  \E pattern \in required_patterns : Contains(lowered, pattern)

\* float(x) raises OverflowError: x is an int beyond the range of a double
\* (from 10^309 on; the ints between the largest double and 10^309 are taken
\* to convert, as DecimalOf takes the strings that denote them).
FloatOverflows(x) ==
    /\ x.t = "int"
    /\ x.m # 0
    /\ NumDigits(Abs(x.m)) + x.e - 1 > DblMaxExp10

\* float(x) succeeds: x is a float, a bool, an int within the range of a
\* double, or a str that float() parses.  It raises ValueError or TypeError on
\* every other value but an int out of range.
FloatConverts(x) ==
    \/ x.t \in {"float", "bool"}
    \/ x.t = "int" /\ ~FloatOverflows(x)
    \/ IsStr(x) /\ FloatParses(x.s)

\* float(x), where it succeeds
ToFloat(x) ==
    IF IsStr(x) THEN FloatOf(x.s)
    ELSE IF x.t = "float" THEN x
    ELSE PyFloat(x.m, x.e)

\* The number of digits of a nonzero number before its decimal point.
Magnitude(x) == NumDigits(Abs(x.m)) + x.e

\* 1 / 0.00001, the tolerance of the precision test
PrecisionScale == 100000

\* old_val != 0 and abs((new_val - old_val) / old_val) < 0.00001, on finite
\* numbers, in exact arithmetic: d * 100000 < M  iff  d <= (M - 1) \div 100000.
\* Two numbers whose decimal magnitudes are two or more apart differ by more
\* than the tolerance; the others are brought to one exponent.
WithinTolerance(old_val, new_val) ==
    /\ old_val.m # 0
    /\ new_val.m # 0
    /\ Abs(Magnitude(old_val) - Magnitude(new_val)) <= 1
    /\ LET c == IF old_val.e < new_val.e THEN old_val.e ELSE new_val.e
           M1 == old_val.m * Pow10(old_val.e - c)
           M2 == new_val.m * Pow10(new_val.e - c)
       IN  Abs(M2 - M1) <= (Abs(M1) - 1) \div PrecisionScale

DetailOr(details, key, default) ==
    IF key \in DOMAIN details THEN details[key] ELSE default

is_numeric_precision_issue(details) ==
    LET old == DetailOr(details, "old_value", PyInt(0))
        new == DetailOr(details, "new_value", PyInt(0))
    IN  /\ FloatConverts(old)
        /\ FloatConverts(new)
        /\ ToFloat(old).k = "fin"
        /\ ToFloat(new).k = "fin"
        /\ WithinTolerance(ToFloat(old), ToFloat(new))

\* The precision test always answers: OverflowError is caught as well.
precision_check_raises_never(details) == FALSE

\* _is_numeric_precision_issue leaves by an exception that its except clause
\* (ValueError, TypeError, ZeroDivisionError) does not catch: float() of the
\* old value overflows, or the old value converts and float() of the new one
\* overflows.
precision_check_raises(details) ==
    LET old == DetailOr(details, "old_value", PyInt(0))
        new == DetailOr(details, "new_value", PyInt(0))
    IN  \/ FloatOverflows(old)
        \/ FloatConverts(old) /\ FloatOverflows(new)

\* The outcome of a call that raised OverflowError instead of returning;
\* analyze_violations and compare do not catch it either.
OverflowError == "OverflowError"

categorize_violation(violation_type, path, details) ==
    IF violation_type = "values_changed"
    THEN IF is_critical_field(path) THEN "critical"
         ELSE IF precision_check_raises(details) THEN OverflowError
         ELSE IF is_numeric_precision_issue(details) THEN "precision"
         ELSE "data_mismatch"
    ELSE IF violation_type = "dictionary_item_removed"
    THEN IF is_required_field(path) THEN "missing_required" ELSE "missing_optional"
    ELSE IF violation_type = "dictionary_item_added" THEN "extra_field"
    ELSE IF violation_type = "type_changes" THEN "type_mismatch"
    ELSE "unknown"

\* violation.get(key, default)
Get(violation, key, default) ==
    IF key \in DOMAIN violation THEN violation[key] ELSE default

NoDetails == [x \in {} |-> PyNone]

\* A record without 'type' taken as a values_changed.
CategoryOf_changed(violation) ==
    categorize_violation(Get(violation, "type", "values_changed"),
                         Get(violation, "path", <<>>),
                         Get(violation, "details", NoDetails))

CategoryOf(violation) ==
    categorize_violation(Get(violation, "type", "unknown"),
                         Get(violation, "path", <<>>),
                         Get(violation, "details", NoDetails))

\* categorized[category] = [violation]: the bucket is overwritten.
AppendTo_overwrite(categorized, category, violation) ==
    [c \in DOMAIN categorized \cup {category} |->
        IF c = category THEN <<violation>> ELSE categorized[c]]

\* categorized[category].append(violation) on a defaultdict(list)
AppendTo(categorized, category, violation) ==
    [c \in DOMAIN categorized \cup {category} |->
        IF c = category
        THEN IF c \in DOMAIN categorized
             THEN Append(categorized[c], violation)
             ELSE <<violation>>
        ELSE categorized[c]]

NoBuckets == [c \in {} |-> <<>>]

RECURSIVE AnalyzeInto(_, _)
AnalyzeInto(categorized, vs) ==
    IF vs = <<>> THEN categorized
    ELSE AnalyzeInto(AppendTo(categorized, CategoryOf(Head(vs)), Head(vs)), Tail(vs))

analyze_violations(vs) == AnalyzeInto(NoBuckets, vs)

\* The violations are also grouped into the analyzer's own field.
AnalyzerAfter_shared(categories, vs) == AnalyzeInto(categories, vs)

\* self.violation_categories after analyze_violations(vs): the grouping is
\* done in a local defaultdict and the field set by __init__ is not touched.
AnalyzerAfter(categories, vs) == categories

\* data_mismatch and type_mismatch weights exchanged.
severity_weights_swapped ==
    [critical |-> 50, missing_required |-> 30, data_mismatch |-> 15,
     type_mismatch |-> 20, precision |-> 5, missing_optional |-> 3,
     extra_field |-> 2, unknown |-> 10]

severity_weights ==
    [critical |-> 50, missing_required |-> 30, data_mismatch |-> 20,
     type_mismatch |-> 15, precision |-> 5, missing_optional |-> 3,
     extra_field |-> 2, unknown |-> 10]

\* the default of severity_weights.get(category, 10)
DefaultWeight == 10

WeightOf(category) ==
    IF category \in DOMAIN severity_weights
    THEN severity_weights[category]
    ELSE DefaultWeight

RECURSIVE WeightedSum(_, _)
WeightedSum(categorized, cats) ==
    IF cats = {} THEN 0
    ELSE LET category == CHOOSE c \in cats : TRUE
         IN  Len(categorized[category]) * WeightOf(category)
                + WeightedSum(categorized, cats \ {category})

SeverityCap == 100

Min(a, b) == IF a < b THEN a ELSE b

\* No cap.
CapScore_none(rawScore) == rawScore

\* The score kept in range by wrapping around instead of saturating.
CapScore_wrap(rawScore) == rawScore % (SeverityCap + 1)

CapScore(rawScore) == Min(rawScore, SeverityCap)

get_severity_score(vs) ==
    LET categorized == analyze_violations(vs)
    IN  CapScore(WeightedSum(categorized, DOMAIN categorized))

(***************************************************************************)
(* ResponseComparator                                                      *)
(***************************************************************************)
RECURSIVE remove_fields(_, _)
remove_fields(d, fields) ==
    IF IsDictNode(d)
    THEN LET kept == SelectSeq(d.kids, LAMBDA it : it.k \notin fields)
         IN  PyDict([i \in 1..Len(kept) |->
                        Item(kept[i].k, remove_fields(kept[i].v, fields))])
    ELSE IF IsListNode(d)
    THEN PyList([i \in 1..Len(d.kids) |-> remove_fields(d.kids[i].v, fields)])
    ELSE d

Keys(obj) == {obj.kids[i].k : i \in 1..Len(obj.kids)}

\* obj[key]
Lookup(obj, key) == obj.kids[CHOOSE i \in 1..Len(obj.kids) : obj.kids[i].k = key].v

Reverse(s) == [i \in 1..Len(s) |-> s[Len(s) + 1 - i]]

\* Only the keys of obj1 are visited.
all_keys_first(obj1, obj2) == [i \in 1..Len(obj1.kids) |-> obj1.kids[i].k]

\* Iteration order of set(obj1.keys()) | set(obj2.keys()).  A set of str is
\* iterated in an order fixed by the process's hash seed; the model has two
\* seeds, giving an order and its reverse.
all_keys(obj1, obj2) ==
    LET k1 == [i \in 1..Len(obj1.kids) |-> obj1.kids[i].k]
        only2 == SelectSeq(obj2.kids, LAMBDA it : it.k \notin Keys(obj1))
        k2 == [i \in 1..Len(only2) |-> only2[i].k]
    IN  IF hashSeed = "fwd" THEN k1 \o k2 ELSE Reverse(k1 \o k2)

RECURSIVE IntToChars(_)
\* str(i) for i >= 0
IntToChars(i) ==
    IF i < 10 THEN <<DigitChars[i + 1]>>
    ELSE IntToChars(i \div 10) \o <<DigitChars[(i % 10) + 1]>>

Chars_root == <<"r", "o", "o", "t">>

\* f"{path}['{key}']"
KeyPath(path, key) == path \o <<"[", "'">> \o key \o <<"'", "]">>

\* f"{path}[{i}]", i counted from 0
IndexPath(path, i) == path \o <<"[">> \o IntToChars(i) \o <<"]">>

\* obj1 != obj2 on two values of one type, neither a dict nor a list
LeafDiffers(obj1, obj2) ==
    IF obj1.k = "nan" \/ obj2.k = "nan" THEN TRUE ELSE obj1 # obj2

TypeChange(obj1, obj2, path) ==
    [type |-> "type_changes", path |-> path,
     details |-> [expected_type |-> TypeName(obj1), actual_type |-> TypeName(obj2),
                  expected_value |-> obj1, actual_value |-> obj2]]

ItemAdded(path, value) ==
    [type |-> "dictionary_item_added", path |-> path, details |-> [value |-> value]]

\* A removed key reported with the type of an added one.
ItemRemoved_as_added(path, value) ==
    [type |-> "dictionary_item_added", path |-> path, details |-> [value |-> value]]

ItemRemoved(path, value) ==
    [type |-> "dictionary_item_removed", path |-> path, details |-> [value |-> value]]

\* The two lengths exchanged.
LengthChanged_swapped(obj1, obj2, path) ==
    [type |-> "list_length_changed", path |-> path,
     details |-> [expected_length |-> Len(obj2.kids), actual_length |-> Len(obj1.kids)]]

LengthChanged(obj1, obj2, path) ==
    [type |-> "list_length_changed", path |-> path,
     details |-> [expected_length |-> Len(obj1.kids), actual_length |-> Len(obj2.kids)]]

ValueChanged(obj1, obj2, path) ==
    [type |-> "values_changed", path |-> path,
     details |-> [old_value |-> obj1, new_value |-> obj2]]

\* int, float and bool taken as one type of number.
TypesDiffer_numbers(obj1, obj2) ==
    LET Kind(x) == IF TypeName(x) \in {"int", "float", "bool"} THEN "number"
                   ELSE TypeName(x)
    IN  Kind(obj1) # Kind(obj2)

TypesDiffer(obj1, obj2) == TypeName(obj1) # TypeName(obj2)

RECURSIVE deep_compare(_, _, _)
RECURSIVE CompareKeys(_, _, _, _)
RECURSIVE CompareElements(_, _, _, _)

\* the loop "for key in all_keys", over the keys still to visit
CompareKeys(obj1, obj2, path, keys) ==
    IF keys = <<>> THEN <<>>
    ELSE LET key == Head(keys)
             new_path == KeyPath(path, key)
             found == IF key \notin Keys(obj1)
                      THEN <<ItemAdded(new_path, Lookup(obj2, key))>>
                      ELSE IF key \notin Keys(obj2)
                      THEN <<ItemRemoved(new_path, Lookup(obj1, key))>>
                      ELSE deep_compare(Lookup(obj1, key), Lookup(obj2, key), new_path)
         IN  found \o CompareKeys(obj1, obj2, path, Tail(keys))

\* the loop over enumerate(zip(obj1, obj2)), from index i (counted from 0)
CompareElements(obj1, obj2, path, i) ==
    IF i >= Len(obj1.kids) \/ i >= Len(obj2.kids) THEN <<>>
    ELSE deep_compare(obj1.kids[i + 1].v, obj2.kids[i + 1].v, IndexPath(path, i))
            \o CompareElements(obj1, obj2, path, i + 1)

deep_compare(obj1, obj2, path) ==
    IF TypesDiffer(obj1, obj2)
    THEN <<TypeChange(obj1, obj2, path)>>
    ELSE IF IsDictNode(obj1)
    THEN CompareKeys(obj1, obj2, path, all_keys(obj1, obj2))
    ELSE IF IsListNode(obj1)
    THEN (IF Len(obj1.kids) # Len(obj2.kids)
          THEN <<LengthChanged(obj1, obj2, path)>>
          ELSE <<>>)
            \o CompareElements(obj1, obj2, path, 0)
    ELSE IF LeafDiffers(obj1, obj2)
    THEN <<ValueChanged(obj1, obj2, path)>>
    ELSE <<>>

\* One line of the summary: what it reports and the number it states.
Line(what, n) == [what |-> what, n |-> n]

\* The precision line written before the type-mismatch line.
SummaryCategories_swapped ==
    <<"critical", "missing_required", "data_mismatch", "precision", "type_mismatch">>

SummaryCategories ==
    <<"critical", "missing_required", "data_mismatch", "type_mismatch", "precision">>

generate_summary(categorized, severity) ==
    IF DOMAIN categorized = {}
    THEN <<Line("no_violations", 0)>>
    ELSE LET present == SelectSeq(SummaryCategories, LAMBDA c : c \in DOMAIN categorized)
         IN  <<Line("severity", severity)>>
                \o [i \in 1..Len(present) |-> Line(present[i], Len(categorized[present[i]]))]

\* Off by one: a single violation still counts as identical.
IsIdentical_loose(vs) == Len(vs) <= 1

IsIdentical(vs) == Len(vs) = 0

Prepared(response, fields) ==
    remove_fields(IF normalize THEN normalize_all(response) ELSE response, fields)

\* The tree is normalized and stripped of the ignored fields in place.
ArgumentAfter_in_place(response, fields) == Prepared(response, fields)

\* The object passed as response1 or response2, after compare has returned:
\* normalize_all and _remove_fields build new dicts and lists and compare
\* rebinds its local names, so the caller's tree is as it was.
ArgumentAfter(response, fields) == response

\* The set passed as ignore_fields, after compare has returned.
FieldsAfter(fields) == fields

\* What compare returns for the violations found, <<is_identical, report>>,
\* or the error that categorize_violation raised in analyze_violations.
Returned(vs, categorized, severity) ==
    IF OverflowError \in DOMAIN categorized
    THEN <<OverflowError, [raised |-> OverflowError]>>
    ELSE <<IsIdentical(vs),
           [is_identical |-> IsIdentical(vs),
            violation_count |-> Len(vs),
            violations |-> vs,
            categorized_violations |-> categorized,
            severity_score |-> severity,
            summary |-> generate_summary(categorized, severity)]>>

\* the analysis of the violations found, lines 237-249
Analyzed(vs) == Returned(vs, analyze_violations(vs), get_severity_score(vs))

\* compare(response1, response2, ignore_fields)
compare(r1, r2, fields) ==
    Analyzed(deep_compare(Prepared(r1, fields), Prepared(r2, fields), Chars_root))

(***************************************************************************)
(* Inputs.                                                                 *)
(***************************************************************************)
\* longest generated string
MaxStrLen == 3
\* longest generated list
MaxListLen == 2
\* longest violation list handed to the analyzer
MaxViolations == 3
\* the integers n of the numeric-string inputs are -MaxInt .. MaxInt
MaxInt == 12

\* Digits, a hex letter in both cases, the exponent letter in both cases,
\* the decimal point and the sign.
Alphabet == {"0", "1", "5", "a", "A", "e", "E", ".", "-"}

StringsUpTo(n) == UNION {[1..k -> Alphabet] : k \in 0..n}

Chars_x == <<"x">>

Words ==
    {<<"t", "r", "u", "e">>, <<"T", "r", "u", "e">>, <<"y", "e", "s">>,
     <<"f", "a", "l", "s", "e">>, <<"N", "O">>, <<"n", "u", "l", "l">>,
     <<"N", "o", "n", "e">>, <<"n", "o", "n", "e">>, <<"n", "a", "n">>,
     <<"N", "a", "N">>, <<"i", "n", "f">>, <<"-", "I", "n", "f">>,
     <<"i", "n", "f", "i", "n", "i", "t", "y">>, <<"x", "y">>, <<"+", "5">>,
     <<"N", "U", "L", "L">>}

ScalarLeaves ==
    {PyNone, PyTrue, PyFalse, PyInt(0), PyInt(1), PyInt(5), PyInt(-5), PyInt(100),
     PyFloat(15, -1), PyFloat(5, 0), PyFloat(0, 0), PyNaN, PyInf, PyNegInf}

StringLeaves == {PyStr(s) : s \in StringsUpTo(MaxStrLen) \cup Words}

Leaves == ScalarLeaves \cup StringLeaves

\* A leaf alone (1), in a list (2), and in a list inside a dict (3).
Shape(i, leaf) ==
    IF i = 1 THEN leaf
    ELSE IF i = 2 THEN PyList(<<leaf>>)
    ELSE PyDict(<<Item(Chars_x, PyList(<<PyStr(<<"A">>), leaf>>))>>)

Trees == {Shape(i, leaf) : i \in 1..3, leaf \in Leaves}

NoTree == PyNone
NoReport == [is_identical |-> TRUE]
NoViolation == [type |-> "none"]
NoOutcome == "none"
NoResponse == [status_code |-> 0]
NoRep == "none"
NoSessionReport == [summary |-> "none"]

\* ViolationReporter.__init__
NewReporter == [violations |-> <<>>, passed_tests |-> <<>>, failed_tests |-> <<>>]

\* No test has run and no reporter method has been called.
TestsIdle ==
    /\ item = 0
    /\ dolos_response = NoResponse
    /\ blockfrost_response = NoResponse
    /\ comparisons = 0
    /\ rep_call = NoRep
    /\ violation_reporter = NewReporter
    /\ session_report = NoSessionReport
    /\ report_file = NoSessionReport
    /\ history = <<>>

(***************************************************************************)
(* DataNormalizer.normalize_all, applied once and then to its own result.  *)
(***************************************************************************)
InitNormalizer ==
    /\ TestsIdle
    /\ pc = "n0"
    /\ hashSeed = "fwd"
    /\ normalize = TRUE
    /\ data \in Trees
    /\ once = NoTree
    /\ twice = NoTree
    /\ response1 = NoTree
    /\ response2 = NoTree
    /\ ignore_fields = {}
    /\ is_identical = TRUE
    /\ report = NoReport
    /\ reportRev = NoReport
    /\ violations = <<>>
    /\ extra = NoViolation
    /\ score = 0
    /\ shuffled = <<>>
    /\ scoreShuffled = 0
    /\ scoreExt = 0
    /\ reportAgain = NoReport
    /\ calls = 0
    /\ violation_categories = NoBuckets
    /\ classified = NoViolation
    /\ outcome = NoOutcome

NormalizeOnce ==
    /\ UNCHANGED testVars
    /\ pc = "n0"
    /\ once' = normalize_all(data)
    /\ pc' = "n1"
    /\ UNCHANGED <<hashSeed, normalize, data, twice, response1, response2,
                   ignore_fields, is_identical, report, reportRev, violations,
                   extra, score, shuffled, scoreShuffled,
                   scoreExt>>
    /\ UNCHANGED <<reportAgain, calls, violation_categories, classified, outcome>>

NormalizeAgain ==
    /\ UNCHANGED testVars
    /\ pc = "n1"
    /\ twice' = normalize_all(once)
    /\ pc' = "n2"
    /\ UNCHANGED <<hashSeed, normalize, data, once, response1, response2,
                   ignore_fields, is_identical, report, reportRev, violations,
                   extra, score, shuffled, scoreShuffled,
                   scoreExt>>
    /\ UNCHANGED <<reportAgain, calls, violation_categories, classified, outcome>>

NextNormalizer == NormalizeOnce \/ NormalizeAgain

SpecNormalizer == InitNormalizer /\ [][NextNormalizer]_vars

(***************************************************************************)
(* ResponseComparator.compare, called on (response1, response2) and then   *)
(* on (response2, response1).                                              *)
(***************************************************************************)
\* 100.00001 and 100.0
Float100_00001 == PyFloat(10000001, -5)
Float100 == PyFloat(100, 0)

PairLeaves ==
    {PyNone, PyInt(1), PyInt(5), PyStr(<<"1">>), Float100_00001, Float100}

PairKeys == <<Chars_id, Chars_x>>

Absent == Node("absent", "fin", 0, 0, <<>>, <<>>)

\* The dict holding, in the order of keys, each key that f does not leave out.
DictOf(keys, f) ==
    LET present == SelectSeq(keys, LAMBDA key : f[key] # Absent)
    IN  PyDict([i \in 1..Len(present) |-> Item(present[i], f[present[i]])])

Range(s) == {s[i] : i \in 1..Len(s)}

PairDicts ==
    {DictOf(PairKeys, f) :
        f \in [Range(PairKeys) -> PairLeaves \cup {Absent, PyList(<<PyInt(1)>>)}]}

ListElements == {PyInt(1), PyInt(5), PyDict(<<Item(Chars_id, PyInt(1))>>)}

PairLists == {PyList(s) : s \in UNION {[1..n -> ListElements] : n \in 0..MaxListLen}}

PairTrees == PairLeaves \cup PairDicts \cup PairLists

\* str(n)
StrOfInt(n) == IF n < 0 THEN <<"-">> \o IntToChars(-n) ELSE IntToChars(n)

Ints == (-MaxInt)..MaxInt

\* Scenario 3 of the specification
Scenario3A == PyDict(<<Item(Chars_amount, Float100_00001)>>)
Scenario3B == PyDict(<<Item(Chars_amount, Float100)>>)

\* Scenario 1 of the specification
Chars_5 == <<"5">>
Chars_100 == <<"1", "0", "0">>
Scenario1A == PyDict(<<Item(Chars_id, PyStr(Chars_5)), Item(Chars_amount, PyStr(Chars_100))>>)
Scenario1B == PyDict(<<Item(Chars_id, PyInt(5)), Item(Chars_amount, PyInt(100))>>)

\* Scenario 5 of the specification
Scenario5A == PyList(<<PyInt(1), PyInt(2), PyInt(3)>>)
Scenario5B == PyList(<<PyInt(1), PyInt(2)>>)

Scenarios ==
    {<<Scenario3A, Scenario3B>>, <<Scenario1A, Scenario1B>>, <<Scenario5A, Scenario5B>>}

\* any two trees
PairInputs ==
    /\ response1 \in PairTrees
    /\ response2 \in PairTrees
    /\ normalize \in BOOLEAN
    /\ hashSeed \in (IF normalize THEN {"fwd", "rev"} ELSE {"fwd"})

\* a tree and itself
SameInputs ==
    /\ response1 \in {Shape(i, leaf) : i \in {1, 3}, leaf \in Leaves}
    /\ response2 = response1
    /\ hashSeed = "fwd"
    /\ normalize = TRUE

\* the decimal string of n against n
NumericInputs ==
    /\ \E n \in Ints : \E i \in 1..3 :
          /\ response1 = Shape(i, PyStr(StrOfInt(n)))
          /\ response2 = Shape(i, PyInt(n))
    /\ hashSeed = "fwd"
    /\ normalize \in BOOLEAN

ScenarioInputs ==
    /\ \E sc \in Scenarios : response1 = sc[1] /\ response2 = sc[2]
    /\ hashSeed \in {"fwd", "rev"}
    /\ normalize \in BOOLEAN

InitComparator ==
    /\ TestsIdle
    /\ pc = "c0"
    /\ PairInputs \/ SameInputs \/ NumericInputs \/ ScenarioInputs
    /\ ignore_fields = {}
    /\ data = NoTree
    /\ once = NoTree
    /\ twice = NoTree
    /\ is_identical = TRUE
    /\ report = NoReport
    /\ reportRev = NoReport
    /\ violations = <<>>
    /\ extra = NoViolation
    /\ score = 0
    /\ shuffled = <<>>
    /\ scoreShuffled = 0
    /\ scoreExt = 0
    /\ reportAgain = NoReport
    /\ calls = 0
    /\ violation_categories = NoBuckets
    /\ classified = NoViolation
    /\ outcome = NoOutcome

Compare ==
    /\ UNCHANGED testVars
    /\ pc = "c0"
    /\ LET returned == compare(response1, response2, ignore_fields)
       IN  /\ is_identical' = returned[1]
           /\ report' = returned[2]
           /\ violation_categories' =
                  AnalyzerAfter(violation_categories, report'.violations)
    /\ pc' = "c1"
    /\ UNCHANGED <<reportAgain, calls, classified, outcome>>
    /\ UNCHANGED <<hashSeed, normalize, data, once, twice, reportRev, violations,
                   extra, score, shuffled, scoreShuffled, scoreExt>>
    /\ response1' = ArgumentAfter(response1, ignore_fields)
    /\ response2' = ArgumentAfter(response2, ignore_fields)
    /\ ignore_fields' = FieldsAfter(ignore_fields)

CompareReversed ==
    /\ UNCHANGED testVars
    /\ pc = "c1"
    /\ LET returned == compare(response2, response1, ignore_fields)
       IN  /\ reportRev' = returned[2]
           /\ violation_categories' =
                  AnalyzerAfter(violation_categories, reportRev'.violations)
    /\ pc' = "c2"
    /\ UNCHANGED <<reportAgain, calls, classified, outcome>>
    /\ UNCHANGED <<hashSeed, normalize, data, once, twice, is_identical, report,
                   violations, extra, score, shuffled, scoreShuffled, scoreExt>>
    /\ response1' = ArgumentAfter(response1, ignore_fields)
    /\ response2' = ArgumentAfter(response2, ignore_fields)
    /\ ignore_fields' = FieldsAfter(ignore_fields)

NextComparator == Compare \/ CompareReversed

SpecComparator == InitComparator /\ [][NextComparator]_vars

(***************************************************************************)
(* ViolationAnalyzer.get_severity_score, called on a list of violations,   *)
(* on the same violations in another order, and on the list with one more  *)
(* violation appended.                                                     *)
(***************************************************************************)
PathId == KeyPath(Chars_root, Chars_id)
PathX == KeyPath(Chars_root, Chars_x)

\* One violation of every category, and a record that has no 'type'.
ViolationPool ==
    {ValueChanged(PyInt(1), PyInt(5), PathId),
     ValueChanged(Float100_00001, Float100, PathX),
     ValueChanged(PyInt(1), PyInt(5), PathX),
     ItemRemoved(PathId, PyInt(1)),
     ItemRemoved(PathX, PyInt(1)),
     ItemAdded(PathX, PyNone),
     TypeChange(PyInt(1), PyStr(<<"a">>), PathX),
     LengthChanged(PyList(<<PyInt(1)>>), PyList(<<>>), Chars_root),
     [path |-> PathId]}

ViolationLists == UNION {[1..n -> ViolationPool] : n \in 0..MaxViolations}

Permuted(vs, p) == [i \in 1..Len(vs) |-> vs[p[i]]]

InitAnalyzer ==
    /\ TestsIdle
    /\ pc = "a0"
    /\ violations \in ViolationLists
    /\ extra = NoViolation
    /\ score = 0
    /\ shuffled = <<>>
    /\ scoreShuffled = 0
    /\ scoreExt = 0
    /\ reportAgain = NoReport
    /\ calls = 0
    /\ violation_categories = NoBuckets
    /\ classified = NoViolation
    /\ outcome = NoOutcome
    /\ hashSeed = "fwd"
    /\ normalize = TRUE
    /\ data = NoTree
    /\ once = NoTree
    /\ twice = NoTree
    /\ response1 = NoTree
    /\ response2 = NoTree
    /\ ignore_fields = {}
    /\ is_identical = TRUE
    /\ report = NoReport
    /\ reportRev = NoReport

Score ==
    /\ UNCHANGED testVars
    /\ pc = "a0"
    /\ score' = get_severity_score(violations)
    /\ pc' = "a1"
    /\ UNCHANGED <<hashSeed, normalize, data, once, twice, response1, response2,
                   ignore_fields, is_identical, report, reportRev, violations,
                   extra, shuffled, scoreShuffled, scoreExt>>
    /\ UNCHANGED <<reportAgain, calls, violation_categories, classified, outcome>>

ScoreShuffled ==
    /\ UNCHANGED testVars
    /\ pc = "a1"
    /\ \E p \in Permutations(1..Len(violations)) :
          LET permuted == Permuted(violations, p)
          IN  /\ shuffled' = permuted
              /\ scoreShuffled' = get_severity_score(permuted)
    /\ pc' = "a2"
    /\ UNCHANGED <<hashSeed, normalize, data, once, twice, response1, response2,
                   ignore_fields, is_identical, report, reportRev, violations,
                   extra, score, scoreExt>>
    /\ UNCHANGED <<reportAgain, calls, violation_categories, classified, outcome>>

ScoreExtended ==
    /\ UNCHANGED testVars
    /\ pc = "a1"
    /\ \E v \in ViolationPool :
          /\ extra' = v
          /\ scoreExt' = get_severity_score(Append(violations, v))
    /\ pc' = "a3"
    /\ UNCHANGED <<hashSeed, normalize, data, once, twice, response1, response2,
                   ignore_fields, is_identical, report, reportRev, violations,
                   score, shuffled, scoreShuffled>>
    /\ UNCHANGED <<reportAgain, calls, violation_categories, classified, outcome>>

NextAnalyzer == Score \/ ScoreShuffled \/ ScoreExtended

SpecAnalyzer == InitAnalyzer /\ [][NextAnalyzer]_vars

(***************************************************************************)
(* Properties of ResponseComparator.compare (SpecComparator).              *)
(***************************************************************************)
Compared == pc \in {"c1", "c2"}

\* C1: comparing a tree with itself yields no violation and is_identical.
Reflexive ==
    (Compared /\ response1 = response2)
        => (report.violations = <<>> /\ report.is_identical /\ is_identical)

NumericPair(n, i) ==
    /\ response1 = Shape(i, PyStr(StrOfInt(n)))
    /\ response2 = Shape(i, PyInt(n))

\* C3: with normalization enabled, the decimal string of every integer n
\* compares equal to n.
NumericStringEqualsNumber ==
    (Compared /\ normalize)
        => \A n \in Ints : \A i \in 1..3 :
              NumericPair(n, i) => report.violations = <<>>

\* C3, amended: with normalization enabled, the decimal string of every
\* integer n other than 0 and 1 compares equal to n.
NumericStringEqualsNumberExceptBool ==
    (Compared /\ normalize)
        => \A n \in Ints \ {0, 1} : \A i \in 1..3 :
              NumericPair(n, i) => report.violations = <<>>

NumericStringCompared ==
    /\ pc = "c1"
    /\ normalize
    /\ NumericPair(-5, 3)
    /\ report.violations = <<>>

IsScenario3 == response1 = Scenario3A /\ response2 = Scenario3B

OnlyCategory(category) ==
    /\ DOMAIN report.categorized_violations = {category}
    /\ Len(report.categorized_violations[category]) = 1

\* C4: scenario 3 gives exactly one values_changed violation, classified
\* precision, with severity 5.
Scenario3Precision ==
    (Compared /\ IsScenario3)
        => /\ report.violation_count = 1
           /\ report.violations[1].type = "values_changed"
           /\ OnlyCategory("precision")
           /\ report.severity_score = 5

\* C4, amended: scenario 3 gives exactly one values_changed violation,
\* classified critical (its path contains "amount"), with severity 50.
Scenario3Critical ==
    (Compared /\ IsScenario3)
        => /\ report.violation_count = 1
           /\ report.violations[1].type = "values_changed"
           /\ OnlyCategory("critical")
           /\ report.severity_score = 50

Scenario3Compared == pc = "c1" /\ IsScenario3 /\ normalize

\* C5: compare(a, b) reports a violation if and only if compare(b, a) does.
DetectionSymmetric ==
    pc = "c2" => ((report.violations # <<>>) <=> (reportRev.violations # <<>>))

DetectedBothWays ==
    /\ pc = "c2"
    /\ report.violations # <<>>
    /\ reportRev.violations # <<>>
    /\ \E i \in 1..Len(report.violations) :
          report.violations[i].type = "dictionary_item_added"

Buckets(categorized, violation) ==
    {c \in DOMAIN categorized :
        \E j \in 1..Len(categorized[c]) : categorized[c][j] = violation}

RECURSIVE BucketTotal(_, _)
BucketTotal(categorized, cats) ==
    IF cats = {} THEN 0
    ELSE LET c == CHOOSE x \in cats : TRUE
         IN  Len(categorized[c]) + BucketTotal(categorized, cats \ {c})

\* C6: every violation of a report is in exactly one bucket of
\* categorized_violations, and the bucket sizes sum to violation_count.
CategoryCoverage ==
    Compared
        => /\ \A i \in 1..Len(report.violations) :
                Cardinality(Buckets(report.categorized_violations,
                                    report.violations[i])) = 1
           /\ BucketTotal(report.categorized_violations,
                          DOMAIN report.categorized_violations)
                = report.violation_count

SeveralBuckets ==
    /\ pc = "c1"
    /\ Cardinality(DOMAIN report.categorized_violations) >= 2
    /\ report.violation_count >= 2

\* C7: is_identical is true exactly when violation_count is 0, and the
\* boolean returned first equals the report's is_identical.
IdenticalIffNoViolation ==
    Compared
        => /\ report.is_identical <=> (report.violation_count = 0)
           /\ is_identical <=> report.is_identical

OneViolationNotIdentical ==
    pc = "c1" /\ report.violation_count = 1 /\ ~is_identical

(***************************************************************************)
(* Properties of DataNormalizer.normalize_all (SpecNormalizer).            *)
(***************************************************************************)
\* C2: normalize_all(normalize_all(x)) equals normalize_all(x).
Idempotent == pc = "n2" => twice = once

NormalizedNestedTwice ==
    /\ pc = "n2"
    /\ IsDictNode(data)
    /\ once # data

(***************************************************************************)
(* Properties of ViolationAnalyzer.get_severity_score (SpecAnalyzer).      *)
(***************************************************************************)
Scored == pc \in {"a1", "a2", "a3"}

Categories ==
    {"critical", "missing_required", "data_mismatch", "type_mismatch", "unknown",
     "precision", "missing_optional", "extra_field"}

StatedWeight ==
    [critical |-> 50, missing_required |-> 30, data_mismatch |-> 20,
     type_mismatch |-> 15, unknown |-> 10, precision |-> 5,
     missing_optional |-> 3, extra_field |-> 2]

\* The number of violations of a category, given each violation's category.
CountOf(categoryOf, category) ==
    Cardinality({i \in 1..Len(categoryOf) : categoryOf[i] = category})

RECURSIVE WeightedCount(_, _)
WeightedCount(categoryOf, cats) ==
    IF cats = {} THEN 0
    ELSE LET c == CHOOSE x \in cats : TRUE
         IN  CountOf(categoryOf, c) * StatedWeight[c]
                + WeightedCount(categoryOf, cats \ {c})

StatedSum(vs) ==
    WeightedCount([i \in 1..Len(vs) |-> CategoryOf(vs[i])], Categories)

StatedScore(vs) == LET sum == StatedSum(vs) IN IF sum < 100 THEN sum ELSE 100

IsScenario1 == response1 = Scenario1A /\ response2 = Scenario1B

\* C11: scenario 1, {"id": "5", "amount": "100"} against {"id": 5,
\* "amount": 100}: normalization makes the two trees equal and the list of
\* violations is empty.
Scenario1Equal ==
    (Compared /\ IsScenario1 /\ normalize)
        => /\ normalize_all(response1) = normalize_all(response2)
           /\ report.violations = <<>>
           /\ report.violation_count = 0
           /\ is_identical

Scenario1Compared ==
    /\ pc = "c1"
    /\ IsScenario1
    /\ normalize
    /\ response1 # response2
    /\ report.is_identical

(***************************************************************************)
(* ResponseComparator.compare on the two letter cases of a string of hex   *)
(* digits.                                                                 *)
(***************************************************************************)
UpperChar(c) ==
    IF c \in {LowerChars[i] : i \in DOMAIN LowerChars}
    THEN UpperChars[CHOOSE i \in DOMAIN LowerChars : LowerChars[i] = c]
    ELSE c

\* str.upper()
Upper(s) == [i \in 1..Len(s) |-> UpperChar(s[i])]

\* Decimal digits, hex letters, and the hex letter that is also the exponent
\* mark of float().
HexAlphabet == {"0", "1", "5", "a", "e", "f"}

HexStrings == UNION {[1..n -> HexAlphabet] : n \in 1..MaxStrLen}

\* Scenario 2 of the specification
Chars_ab12 == <<"a", "b", "1", "2">>
Scenario2A == PyDict(<<Item(Chars_hash, PyStr(Upper(Chars_ab12)))>>)
Scenario2B == PyDict(<<Item(Chars_hash, PyStr(Chars_ab12))>>)

HexPair(s, i) ==
    /\ response1 = Shape(i, PyStr(Upper(s)))
    /\ response2 = Shape(i, PyStr(Lower(s)))

HexInputs ==
    /\ \/ \E s \in HexStrings : \E i \in 1..3 : HexPair(s, i)
       \/ response1 = Scenario2A /\ response2 = Scenario2B
    /\ hashSeed = "fwd"
    /\ normalize \in BOOLEAN

\* Nothing has been called yet.
Idle ==
    /\ TestsIdle
    /\ data = NoTree
    /\ once = NoTree
    /\ twice = NoTree
    /\ is_identical = TRUE
    /\ report = NoReport
    /\ reportRev = NoReport
    /\ violations = <<>>
    /\ extra = NoViolation
    /\ score = 0
    /\ shuffled = <<>>
    /\ scoreShuffled = 0
    /\ scoreExt = 0
    /\ reportAgain = NoReport
    /\ calls = 0
    /\ violation_categories = NoBuckets
    /\ classified = NoViolation
    /\ outcome = NoOutcome

InitHex ==
    /\ pc = "c0"
    /\ HexInputs
    /\ ignore_fields = {}
    /\ Idle

SpecHex == InitHex /\ [][NextComparator]_vars

\* C12: with normalization enabled, a leaf holding the upper-case form of a
\* string of hex digits compares equal to the leaf holding its lower-case
\* form, in both directions; so does {"hash": "AB12"} against
\* {"hash": "ab12"}.
HexCaseInsensitive ==
    /\ (Compared /\ normalize) => (report.violations = <<>> /\ is_identical)
    /\ (pc = "c2" /\ normalize) => reportRev.violations = <<>>

HexCasesCompared ==
    /\ pc = "c1"
    /\ normalize
    /\ HexPair(<<"a", "f", "5">>, 3)
    /\ response1 # response2
    /\ report.is_identical

(***************************************************************************)
(* DataNormalizer.normalize_all on a tree, then ResponseComparator.compare *)
(* of the tree with its normalized form.                                   *)
(***************************************************************************)
\* Scenario 6 of the specification
Scenario6A == PyDict(<<Item(Chars_x, PyStr(<<"1">>))>>)
Scenario6B == PyDict(<<Item(Chars_x, PyTrue)>>)

InitRuleOrder ==
    /\ TestsIdle
    /\ pc = "n0"
    /\ hashSeed = "fwd"
    /\ normalize = TRUE
    /\ data \in Trees \cup {Scenario6A, Scenario6B}
    /\ once = NoTree
    /\ twice = NoTree
    /\ response1 = NoTree
    /\ response2 = NoTree
    /\ ignore_fields = {}
    /\ is_identical = TRUE
    /\ report = NoReport
    /\ reportRev = NoReport
    /\ violations = <<>>
    /\ extra = NoViolation
    /\ score = 0
    /\ shuffled = <<>>
    /\ scoreShuffled = 0
    /\ scoreExt = 0
    /\ reportAgain = NoReport
    /\ calls = 0
    /\ violation_categories = NoBuckets
    /\ classified = NoViolation
    /\ outcome = NoOutcome

\* compare(data, normalize_all(data))
CompareNormalized ==
    /\ UNCHANGED testVars
    /\ pc = "n1"
    /\ response1' = data
    /\ response2' = once
    /\ LET returned == compare(data, once, ignore_fields)
       IN  /\ is_identical' = returned[1]
           /\ report' = returned[2]
           /\ violation_categories' =
                  AnalyzerAfter(violation_categories, report'.violations)
    /\ pc' = "n3"
    /\ UNCHANGED <<hashSeed, normalize, data, once, twice, ignore_fields, reportRev,
                   violations, extra, score, shuffled, scoreShuffled, scoreExt,
                   reportAgain, calls, classified, outcome>>

NextRuleOrder == NormalizeOnce \/ CompareNormalized

SpecRuleOrder == InitRuleOrder /\ [][NextRuleOrder]_vars

\* The four rules as the specification words them.
NullLike(leaf) ==
    \/ leaf = PyNone
    \/ IsStr(leaf) /\ leaf.s \in {<<>>, <<"n", "u", "l", "l">>, <<"N", "o", "n", "e">>}

TrueLike(leaf) ==
    IsStr(leaf) /\ Lower(leaf.s) \in {<<"t", "r", "u", "e">>, <<"y", "e", "s">>, <<"1">>}

FalseLike(leaf) ==
    IsStr(leaf) /\ Lower(leaf.s) \in {<<"f", "a", "l", "s", "e">>, <<"n", "o">>, <<"0">>}

NumericLike(leaf) == IsStr(leaf) /\ (IntParses(leaf.s) \/ FloatParses(leaf.s))

HexLike(leaf) ==
    IsStr(leaf) /\ leaf.s # <<>> /\ \A i \in 1..Len(leaf.s) : IsHexDigit(leaf.s[i])

\* The first rule that applies, in the order null-like, boolean-like, numeric,
\* hex; a leaf no rule applies to is left as it is.
FirstRule(leaf) ==
    IF NullLike(leaf) THEN PyNone
    ELSE IF TrueLike(leaf) THEN PyTrue
    ELSE IF FalseLike(leaf) THEN PyFalse
    ELSE IF NumericLike(leaf) THEN normalize_numeric_strings(leaf)
    ELSE IF HexLike(leaf) THEN PyStr(Lower(leaf.s))
    ELSE leaf

RECURSIVE FirstRuleAll(_)
FirstRuleAll(d) ==
    IF IsDictNode(d) \/ IsListNode(d)
    THEN [d EXCEPT !.kids = [i \in 1..Len(d.kids) |->
                                [k |-> d.kids[i].k, v |-> FirstRuleAll(d.kids[i].v)]]]
    ELSE FirstRule(d)

Normalized == pc \in {"n1", "n3"}

\* C13: every scalar leaf gets the rules in the order null-like,
\* boolean-like, numeric, hex; "1" and "0" become True and False, never
\* integers; and {"x": "1"} compared with {"x": True} reports no violation.
RuleOrder ==
    /\ Normalized => once = FirstRuleAll(data)
    /\ Normalized
         => \A i \in 1..2 :
               /\ data = Shape(i, PyStr(<<"1">>)) => once = Shape(i, PyTrue)
               /\ data = Shape(i, PyStr(<<"0">>)) => once = Shape(i, PyFalse)
    /\ (pc = "n3" /\ data = Scenario6A)
         => /\ response2 = Scenario6B
            /\ report.violations = <<>>
            /\ is_identical

Scenario6Compared ==
    /\ pc = "n3"
    /\ response1 = Scenario6A
    /\ response2 = Scenario6B
    /\ report.is_identical

(***************************************************************************)
(* ResponseComparator.compare with ignore_fields, on trees that hold the   *)
(* ignored keys at the top, and in a dict inside a list.                   *)
(***************************************************************************)
Chars_nan == <<"n", "a", "n">>

IgnoreLeaves == {PyInt(1), PyInt(5), PyStr(Chars_nan), Absent}

\* {"id": f[1], "x": [{"id": f[2], "x": f[3]}]}, without the keys f leaves out
Nested(f) ==
    DictOf(PairKeys,
           [key \in Range(PairKeys) |->
               IF key = Chars_id THEN f[1]
               ELSE PyList(<<DictOf(PairKeys,
                                    [inner \in Range(PairKeys) |->
                                        IF inner = Chars_id THEN f[2] ELSE f[3]])>>)])

NestedTrees == {Nested(f) : f \in [1..3 -> IgnoreLeaves]}

InitIgnore ==
    /\ pc = "c0"
    /\ response1 \in NestedTrees
    /\ response2 \in NestedTrees
    /\ ignore_fields \in SUBSET Range(PairKeys)
    /\ hashSeed = "fwd"
    /\ normalize \in BOOLEAN
    /\ Idle

NextIgnore == Compare

SpecIgnore == InitIgnore /\ [][NextIgnore]_vars

\* The part of a path that a mapping key contributes.
KeySegment(key) == <<"[", "'">> \o key \o <<"'", "]">>

PassesThrough(path, fields) == \E key \in fields : Contains(path, KeySegment(key))

\* What is left of a tree outside the values stored under the keys.
RECURSIVE Outside(_, _)
Outside(d, fields) ==
    IF IsDictNode(d) \/ IsListNode(d)
    THEN LET kept == SelectSeq(d.kids, LAMBDA it : ~(IsDictNode(d) /\ it.k \in fields))
         IN  [d EXCEPT !.kids = [i \in 1..Len(kept) |->
                                    [k |-> kept[i].k, v |-> Outside(kept[i].v, fields)]]]
    ELSE d

RECURSIVE HoldsNaN(_)
HoldsNaN(d) ==
    IF IsDictNode(d) \/ IsListNode(d)
    THEN \E i \in 1..Len(d.kids) : HoldsNaN(d.kids[i].v)
    ELSE d.k = "nan"

\* C14: no violation has a path through an ignored key, and two trees that
\* differ only inside values stored under ignored keys compare as identical.
IgnoredFieldsExcluded ==
    pc = "c1"
        => /\ \A i \in 1..Len(report.violations) :
                ~PassesThrough(report.violations[i].path, ignore_fields)
           /\ Outside(response1, ignore_fields) = Outside(response2, ignore_fields)
                => is_identical

\* C14, off NaN: the same, for trees whose part outside the ignored keys
\* holds no leaf that is or normalizes to NaN.
IgnoredFieldsExcludedOffNaN ==
    pc = "c1"
        => /\ \A i \in 1..Len(report.violations) :
                ~PassesThrough(report.violations[i].path, ignore_fields)
           /\ (/\ Outside(response1, ignore_fields) = Outside(response2, ignore_fields)
               /\ ~HoldsNaN(Prepared(response1, ignore_fields)))
                => is_identical

IgnoredDeepDifference ==
    /\ pc = "c1"
    /\ ignore_fields = {Chars_id}
    /\ response1 = Nested(<<PyInt(1), PyInt(1), PyInt(1)>>)
    /\ response2 = Nested(<<PyInt(5), PyInt(5), PyInt(1)>>)
    /\ is_identical

(***************************************************************************)
(* Several calls of compare on one ResponseComparator, and a call repeated *)
(* after the process has been started again.                               *)
(***************************************************************************)
\* comparisons of other responses made around the two compared calls
MaxCalls == 1

InstanceLeaves == {PyInt(1), PyStr(<<"1">>), Float100, Absent}

InstanceTrees == {DictOf(PairKeys, f) : f \in [Range(PairKeys) -> InstanceLeaves]}

OtherTrees == {Scenario3A, Scenario3B, Scenario5B}

InitInstance ==
    /\ pc = "c0"
    /\ response1 \in InstanceTrees
    /\ response2 \in InstanceTrees
    /\ ignore_fields \in {{}, {Chars_id}}
    /\ hashSeed \in {"fwd", "rev"}
    /\ normalize \in BOOLEAN
    /\ Idle

\* compare on some other pair of responses, before or between the two calls
CompareOther ==
    /\ UNCHANGED testVars
    /\ pc \in {"c0", "c1"}
    /\ calls < MaxCalls
    /\ \E other1 \in OtherTrees, other2 \in OtherTrees, fields \in {{}, {Chars_amount}} :
          violation_categories' =
              AnalyzerAfter(violation_categories,
                            compare(other1, other2, fields)[2].violations)
    /\ calls' = calls + 1
    /\ UNCHANGED <<pc, hashSeed, normalize, data, once, twice, response1, response2,
                   ignore_fields, is_identical, report, reportRev, violations, extra,
                   score, shuffled, scoreShuffled, scoreExt, reportAgain, classified,
                   outcome>>

\* compare(response1, response2, ignore_fields) once more
CompareAgain ==
    /\ UNCHANGED testVars
    /\ pc \in {"c1", "r1"}
    /\ LET returned == compare(response1, response2, ignore_fields)
       IN  /\ reportAgain' = returned[2]
           /\ violation_categories' =
                  AnalyzerAfter(violation_categories, reportAgain'.violations)
    /\ pc' = "c3"
    /\ UNCHANGED <<hashSeed, normalize, data, once, twice, is_identical, report,
                   reportRev, violations, extra, score, shuffled, scoreShuffled,
                   scoreExt, calls, classified, outcome>>
    /\ response1' = ArgumentAfter(response1, ignore_fields)
    /\ response2' = ArgumentAfter(response2, ignore_fields)
    /\ ignore_fields' = FieldsAfter(ignore_fields)

NextInstance == Compare \/ CompareOther \/ CompareAgain

SpecInstance == InitInstance /\ [][NextInstance]_vars

\* The test process ends and is started again: the string hash seed, which
\* fixes the iteration order of a set of keys, is drawn anew and a new
\* ResponseComparator is constructed.
Rerun ==
    /\ UNCHANGED testVars
    /\ pc = "c1"
    /\ hashSeed' \in {"fwd", "rev"}
    /\ violation_categories' = NoBuckets
    /\ pc' = "r1"
    /\ UNCHANGED <<normalize, data, once, twice, response1, response2,
                   ignore_fields, is_identical, report, reportRev, violations, extra,
                   score, shuffled, scoreShuffled, scoreExt, reportAgain, calls,
                   classified, outcome>>

NextRerun == Compare \/ Rerun \/ CompareAgain

SpecRerun == InitInstance /\ [][NextRerun]_vars

StableOrder == pc = "c3" => reportAgain.violations = report.violations

\* C16, inside one process: the two calls return the same violations in the
\* same order when the hash seed has not changed in between.
StableOrderSameSeed ==
    [][(pc' = "c3" /\ pc = "c1") => reportAgain'.violations = report.violations]_vars

(***************************************************************************)
(* ViolationAnalyzer.categorize_violation on one violation, as             *)
(* analyze_violations calls it.                                            *)
(***************************************************************************)
\* 10^400, an int that no double holds
HugeInt == PyIntME(1, 400)

\* A detail value, or Absent for a detail that the violation does not have.
DetailValues ==
    {Absent, PyNone, PyStr(<<"x", "y">>), PyStr(<<>>), PyStr(<<"1", ".", "5">>),
     PyInt(0), PyInt(5), PyTrue, Float100, Float100_00001, PyNaN, PyInf,
     PyList(<<PyInt(1)>>), HugeInt}

\* {'old_value': old, 'new_value': new}, without the details that are Absent
DetailsOf(old, new) ==
    [key \in {k \in {"old_value", "new_value"} :
                 (IF k = "old_value" THEN old ELSE new) # Absent} |->
        IF key = "old_value" THEN old ELSE new]

\* Every pair of detail values at a critical and at a non-critical path, and
\* every generated string as the old value at the non-critical path.
ClassifierPool ==
    {[type |-> "values_changed", path |-> path, details |-> DetailsOf(old, new)] :
        path \in {PathX, PathId}, old \in DetailValues, new \in DetailValues}
    \cup
    {[type |-> "values_changed", path |-> PathX, details |-> DetailsOf(old, new)] :
        old \in StringLeaves, new \in {Absent, PyInt(5), PyStr(<<"1", ".", "5">>)}}

InitClassifier ==
    /\ TestsIdle
    /\ pc = "k0"
    /\ classified \in ClassifierPool
    /\ outcome = NoOutcome
    /\ hashSeed = "fwd"
    /\ normalize = TRUE
    /\ response1 = NoTree
    /\ response2 = NoTree
    /\ ignore_fields = {}
    /\ data = NoTree
    /\ once = NoTree
    /\ twice = NoTree
    /\ is_identical = TRUE
    /\ report = NoReport
    /\ reportRev = NoReport
    /\ violations = <<>>
    /\ extra = NoViolation
    /\ score = 0
    /\ shuffled = <<>>
    /\ scoreShuffled = 0
    /\ scoreExt = 0
    /\ reportAgain = NoReport
    /\ calls = 0
    /\ violation_categories = NoBuckets

\* categorize_violation(violation.get('type', 'unknown'),
\*                      violation.get('path', ''), violation.get('details', {}))
Categorize ==
    /\ UNCHANGED testVars
    /\ pc = "k0"
    /\ outcome' = CategoryOf(classified)
    /\ pc' = "k1"
    /\ UNCHANGED <<hashSeed, normalize, data, once, twice, response1, response2,
                   ignore_fields, is_identical, report, reportRev, violations, extra,
                   score, shuffled, scoreShuffled, scoreExt, reportAgain, calls,
                   violation_categories, classified>>

NextClassifier == Categorize

SpecClassifier == InitClassifier /\ [][NextClassifier]_vars

\* A detail that cannot be read as a number: missing, null, a list, or a
\* string that float() does not parse.
NotANumber(details, key) ==
    \/ key \notin DOMAIN details
    \/ details[key].t \in {"NoneType", "list", "dict"}
    \/ IsStr(details[key]) /\ ~FloatParses(details[key].s)

NonCriticalChange ==
    /\ pc = "k1"
    /\ classified.type = "values_changed"
    /\ ~is_critical_field(classified.path)

\* C17: a values_changed violation at a non-critical path whose old or new
\* value cannot be parsed as a number is classified data_mismatch, and no
\* error is raised.
UnparseableIsDataMismatch ==
    (/\ NonCriticalChange
     /\ \/ NotANumber(classified.details, "old_value")
        \/ NotANumber(classified.details, "new_value"))
        => outcome = "data_mismatch"

\* C17, within the range of a double: the same, when neither value is an int
\* that float() cannot hold; and no classification raises then.
UnparseableIsDataMismatchInRange ==
    (/\ pc = "k1"
     /\ \A key \in DOMAIN classified.details : ~FloatOverflows(classified.details[key]))
        => /\ outcome # OverflowError
           /\ (/\ NonCriticalChange
               /\ \/ NotANumber(classified.details, "old_value")
                  \/ NotANumber(classified.details, "new_value"))
                => outcome = "data_mismatch"

UnparseableClassified ==
    /\ NonCriticalChange
    /\ classified.details = DetailsOf(PyStr(<<"x", "y">>), PyInt(5))
    /\ outcome = "data_mismatch"

(***************************************************************************)
(* The rules of _deep_compare, stated on the report of compare             *)
(* (SpecComparator).                                                       *)
(***************************************************************************)
IsPrefix(p, q) == Len(p) <= Len(q) /\ SubSeq(q, 1, Len(p)) = p

\* The violations at a path or below it, in the order of the report.
AtOrBelow(vs, path) == SelectSeq(vs, LAMBDA v : IsPrefix(path, v.path))

CommonKeys(a, b) == Keys(a) \cap Keys(b)

MinLen(a, b) == IF Len(a.kids) < Len(b.kids) THEN Len(a.kids) ELSE Len(b.kids)

\* Every path at which the differ holds a value of each tree: the root, and
\* below a pair of mappings the keys of both, below a pair of sequences the
\* indices of both.
RECURSIVE Paired(_, _, _)
Paired(a, b, path) ==
    {[path |-> path, a |-> a, b |-> b]}
        \cup (IF IsDictNode(a) /\ IsDictNode(b)
              THEN UNION {Paired(Lookup(a, key), Lookup(b, key), KeyPath(path, key)) :
                             key \in CommonKeys(a, b)}
              ELSE IF IsListNode(a) /\ IsListNode(b)
              THEN UNION {Paired(a.kids[i].v, b.kids[i].v, IndexPath(path, i - 1)) :
                             i \in 1..MinLen(a, b)}
              ELSE {})

PairedPositions ==
    Paired(Prepared(response1, ignore_fields), Prepared(response2, ignore_fields),
           Chars_root)

\* C18: where the two values at a path have different types, the report
\* holds exactly one violation at or below that path: a type_changes at the
\* path itself, with both type names and both values.
TypeMismatchShortCircuits ==
    pc = "c1"
        => \A pos \in PairedPositions :
              pos.a.t # pos.b.t
                  => AtOrBelow(report.violations, pos.path)
                        = <<[type |-> "type_changes",
                             path |-> pos.path,
                             details |-> [expected_type |-> pos.a.t,
                                          actual_type |-> pos.b.t,
                                          expected_value |-> pos.a,
                                          actual_value |-> pos.b]]>>

\* a list against a number under one key: nothing below the list is reported
ListAgainstNumber ==
    /\ pc = "c1"
    /\ ~normalize
    /\ response1 = DictOf(PairKeys, [key \in Range(PairKeys) |->
                                       IF key = Chars_x THEN PyList(<<PyInt(1)>>)
                                       ELSE PyInt(1)])
    /\ response2 = DictOf(PairKeys, [key \in Range(PairKeys) |-> PyInt(1)])
    /\ report.violation_count = 1
    /\ report.violations[1].type = "type_changes"

\* C19: where both values are mappings, each key of the union accounts for
\* exactly one dictionary_item_added with the second tree's value (key only
\* in the second), exactly one dictionary_item_removed with the first tree's
\* value (key only in the first), or exactly the violations of comparing the
\* two values at the key's path; and no other violation is at or below the
\* mapping's path.
RECURSIVE SumOver(_, _)
SumOver(f, keys) ==
    IF keys = {} THEN 0
    ELSE LET key == CHOOSE x \in keys : TRUE
         IN  f[key] + SumOver(f, keys \ {key})

MappingRule ==
    pc = "c1"
        => \A pos \in PairedPositions :
              (IsDictNode(pos.a) /\ IsDictNode(pos.b))
                  => LET union == Keys(pos.a) \cup Keys(pos.b)
                         at(key) == AtOrBelow(report.violations, KeyPath(pos.path, key))
                     IN  /\ \A key \in union :
                               at(key) =
                                   IF key \notin Keys(pos.a)
                                   THEN <<[type |-> "dictionary_item_added",
                                           path |-> KeyPath(pos.path, key),
                                           details |-> [value |-> Lookup(pos.b, key)]]>>
                                   ELSE IF key \notin Keys(pos.b)
                                   THEN <<[type |-> "dictionary_item_removed",
                                           path |-> KeyPath(pos.path, key),
                                           details |-> [value |-> Lookup(pos.a, key)]]>>
                                   ELSE deep_compare(Lookup(pos.a, key), Lookup(pos.b, key),
                                                     KeyPath(pos.path, key))
                         /\ Len(AtOrBelow(report.violations, pos.path))
                               = SumOver([key \in union |-> Len(at(key))], union)

AddedRemovedAndChanged ==
    /\ pc = "c1"
    /\ IsDictNode(response1)
    /\ IsDictNode(response2)
    /\ \E i, j \in 1..Len(report.violations) :
          /\ report.violations[i].type = "dictionary_item_removed"
          /\ report.violations[j].type = "values_changed"

\* C20: where both values are sequences of different lengths, the report
\* holds exactly one list_length_changed at the sequence's path, with the
\* two lengths; each index below the shorter length accounts for exactly the
\* violations of comparing the two elements; nothing else is at or below the
\* path; and [1, 2, 3] against [1, 2] gives violation_count 1, in category
\* unknown.
IsScenario5 == response1 = Scenario5A /\ response2 = Scenario5B

SequenceRule ==
    /\ pc = "c1"
        => \A pos \in PairedPositions :
              (/\ IsListNode(pos.a)
               /\ IsListNode(pos.b)
               /\ Len(pos.a.kids) # Len(pos.b.kids))
                  => LET below == AtOrBelow(report.violations, pos.path)
                         at(i) == AtOrBelow(report.violations, IndexPath(pos.path, i - 1))
                         overlap == 1..MinLen(pos.a, pos.b)
                     IN  /\ SelectSeq(below, LAMBDA v : v.path = pos.path)
                               = <<[type |-> "list_length_changed",
                                    path |-> pos.path,
                                    details |-> [expected_length |-> Len(pos.a.kids),
                                                 actual_length |-> Len(pos.b.kids)]]>>
                         /\ \A i \in overlap :
                               at(i) = deep_compare(pos.a.kids[i].v, pos.b.kids[i].v,
                                                    IndexPath(pos.path, i - 1))
                         /\ Len(below) = 1 + SumOver([i \in overlap |-> Len(at(i))], overlap)
    /\ (pc = "c1" /\ IsScenario5)
        => /\ report.violation_count = 1
           /\ OnlyCategory("unknown")

Scenario5Compared ==
    /\ pc = "c1"
    /\ IsScenario5
    /\ report.violations[1].type = "list_length_changed"

(***************************************************************************)
(* ViolationAnalyzer.categorize_violation on violations of every type, at  *)
(* paths that hold each critical word, and ResponseComparator.compare on   *)
(* a dict with one key against the empty dict.                             *)
(***************************************************************************)
Chars_valid == <<"v", "a", "l", "i", "d">>
Chars_amoun == <<"a", "m", "o", "u", "n">>
Chars_tx_dash_index == <<"t", "x", "-", "i", "n", "d", "e", "x">>

\* Each critical word in lower and in upper case, a word inside a longer key,
\* mixed case, and keys that hold no critical word.
KindKeys ==
    critical_patterns \cup {Upper(word) : word \in critical_patterns}
        \cup {Chars_valid, <<"I", "d">>, Chars_x, Chars_amoun, Chars_tx_dash_index}

KindPaths ==
    {KeyPath(Chars_root, key) : key \in KindKeys}
        \cup {Chars_root, IndexPath(Chars_root, 0),
              KeyPath(IndexPath(PathX, 0), Chars_slot)}

\* <<old_value, new_value>>: within the tolerance, on its edge, outside it,
\* with old = 0, with values that are not numbers, and with an int that no
\* double holds.
ChangePairs ==
    {<<Float100_00001, Float100>>, <<Float100, Float100_00001>>,
     <<PyInt(100000), PyInt(100001)>>, <<PyInt(1000000), PyInt(1000001)>>,
     <<PyInt(-1000000), PyInt(-1000001)>>, <<PyInt(0), PyInt(5)>>,
     <<PyFloat(0, 0), PyFloat(1, -9)>>, <<PyInt(1), PyInt(5)>>,
     <<PyStr(<<"1", ".", "5">>), PyFloat(15, -1)>>, <<PyStr(<<"x", "y">>), PyInt(5)>>,
     <<PyNone, PyInt(5)>>, <<PyInt(5), PyNone>>, <<PyTrue, PyInt(1)>>,
     <<PyNaN, PyNaN>>, <<PyInf, PyInf>>, <<HugeInt, PyInt(5)>>, <<PyInt(5), HugeInt>>}

OtherTypes == {"list_length_changed", "unknown", "iterable_item_added", ""}

\* Violation records of every type; the last ones have no 'type'.
KindPool ==
    {ValueChanged(pair[1], pair[2], path) : pair \in ChangePairs, path \in KindPaths}
    \cup {ItemRemoved(path, value) : path \in KindPaths, value \in {PyInt(1), HugeInt}}
    \cup {ItemAdded(path, value) : path \in KindPaths, value \in {PyInt(1), HugeInt}}
    \cup {TypeChange(PyInt(1), value, path) :
             path \in KindPaths, value \in {PyStr(<<"1">>), PyFloat(1, 0)}}
    \cup {[type |-> type, path |-> path, details |-> DetailsOf(HugeInt, PyInt(5))] :
             type \in OtherTypes, path \in KindPaths}
    \cup {LengthChanged(PyList(<<PyInt(1)>>), PyList(<<>>), path) : path \in KindPaths}
    \cup {[path |-> path, details |-> DetailsOf(HugeInt, PyInt(5))] : path \in KindPaths}
    \cup {[details |-> DetailsOf(PyInt(1), PyInt(5))], [x \in {} |-> PyNone]}

\* Scenario 4 of the specification
Scenario4A == PyDict(<<Item(Chars_id, PyStr(Chars_x))>>)
Scenario4B == PyDict(<<>>)

InitKinds ==
    /\ TestsIdle
    /\ \/ /\ pc = "k0"
          /\ classified \in KindPool
          /\ response1 = NoTree
          /\ response2 = NoTree
          /\ normalize = TRUE
       \/ /\ pc = "c0"
          /\ classified = NoViolation
          /\ response1 \in {PyDict(<<Item(key, PyStr(Chars_x))>>) : key \in KindKeys}
          /\ response2 = Scenario4B
          /\ normalize \in BOOLEAN
    /\ hashSeed = "fwd"
    /\ ignore_fields = {}
    /\ data = NoTree
    /\ once = NoTree
    /\ twice = NoTree
    /\ is_identical = TRUE
    /\ report = NoReport
    /\ reportRev = NoReport
    /\ violations = <<>>
    /\ extra = NoViolation
    /\ score = 0
    /\ shuffled = <<>>
    /\ scoreShuffled = 0
    /\ scoreExt = 0
    /\ reportAgain = NoReport
    /\ calls = 0
    /\ violation_categories = NoBuckets
    /\ outcome = NoOutcome

NextKinds == Categorize \/ Compare

SpecKinds == InitKinds /\ [][NextKinds]_vars

\* The words of the specification's critical rule.
StatedCriticalWords ==
    {<<"h", "a", "s", "h">>, <<"i", "d">>, <<"a", "d", "d", "r", "e", "s", "s">>,
     <<"a", "m", "o", "u", "n", "t">>, <<"q", "u", "a", "n", "t", "i", "t", "y">>,
     <<"e", "p", "o", "c", "h">>, <<"s", "l", "o", "t">>, <<"b", "l", "o", "c", "k">>,
     <<"t", "x", "_", "i", "n", "d", "e", "x">>}

HoldsWord(path, words) == \E word \in words : Contains(Lower(path), word)

\* A value that reads as a number: a number, or a string that denotes one.
ParsesAsNumber(x) == x.t \in {"int", "float", "bool"} \/ (IsStr(x) /\ FloatParses(x.s))

\* Both values read as finite numbers, old is not 0 and
\* |new - old| / |old| < 1e-5, i.e. |new - old| * 100000 < |old|.
StatedPrecision(details) ==
    /\ ParsesAsNumber(details.old_value)
    /\ ParsesAsNumber(details.new_value)
    /\ LET old == ToFloat(details.old_value)
           new == ToFloat(details.new_value)
       IN  /\ old.k = "fin"
           /\ new.k = "fin"
           /\ old.m # 0
           /\ \/ new = old
              \/ /\ new.m # 0
                 /\ Abs(Magnitude(old) - Magnitude(new)) <= 1
                 /\ LET c == IF old.e < new.e THEN old.e ELSE new.e
                        o == old.m * Pow10(old.e - c)
                        n == new.m * Pow10(new.e - c)
                    IN  Abs(n - o) * 100000 < Abs(o)

StatedValueChanged(path, details) ==
    IF HoldsWord(path, StatedCriticalWords) THEN "critical"
    ELSE IF StatedPrecision(details) THEN "precision"
    ELSE "data_mismatch"

Categorized == pc = "k1"

\* C21: a values_changed violation is critical when its path holds, in any
\* letter case, one of the nine critical words; otherwise precision when both
\* values read as numbers, old is not 0 and |new - old| / |old| < 1e-5; and
\* data_mismatch in every other case.
ValueChangedFirstMatch ==
    (Categorized /\ Get(classified, "type", "unknown") = "values_changed")
        => outcome = StatedValueChanged(classified.path, classified.details)

\* C21, within the range of a double: the same, for a violation neither of
\* whose values is an int that float() cannot hold.
ValueChangedFirstMatchInRange ==
    (/\ Categorized
     /\ Get(classified, "type", "unknown") = "values_changed"
     /\ \A key \in DOMAIN classified.details : ~FloatOverflows(classified.details[key]))
        => outcome = StatedValueChanged(classified.path, classified.details)

PrecisionOffCriticalPath ==
    /\ Categorized
    /\ classified = ValueChanged(PyInt(1000000), PyInt(1000001), PathX)
    /\ outcome = "precision"

\* The words of the specification's required rule.
StatedRequiredWords ==
    {<<"h", "a", "s", "h">>, <<"i", "d">>, <<"a", "d", "d", "r", "e", "s", "s">>}

StatedKeyRemoved(path) ==
    IF HoldsWord(path, StatedRequiredWords) THEN "missing_required"
    ELSE "missing_optional"

IsScenario4 == response1 = Scenario4A /\ response2 = Scenario4B

\* C22: a dictionary_item_removed violation is missing_required when its
\* path holds, in any letter case, hash, id or address, and missing_optional
\* otherwise; and {"id": "x"} against {} gives exactly one
\* dictionary_item_removed at root['id'], in category missing_required, with
\* severity 30 and is_identical false.
KeyRemovedRule ==
    /\ (Categorized /\ Get(classified, "type", "unknown") = "dictionary_item_removed")
          => outcome = StatedKeyRemoved(classified.path)
    /\ pc = "c1"
          => /\ report.violation_count = 1
             /\ report.violations[1].type = "dictionary_item_removed"
             /\ OnlyCategory(StatedKeyRemoved(report.violations[1].path))
    /\ (pc = "c1" /\ IsScenario4)
          => /\ report.violations
                   = <<[type |-> "dictionary_item_removed",
                        path |-> <<"r", "o", "o", "t", "[", "'", "i", "d", "'", "]">>,
                        details |-> [value |-> PyStr(<<"x">>)]]>>
             /\ OnlyCategory("missing_required")
             /\ report.severity_score = 30
             /\ ~report.is_identical
             /\ ~is_identical

Scenario4Compared ==
    /\ pc = "c1"
    /\ IsScenario4
    /\ report.violation_count = 1
    /\ report.severity_score = 30

NamedTypes ==
    {"values_changed", "dictionary_item_removed", "dictionary_item_added", "type_changes"}

\* C23: every dictionary_item_added violation is extra_field, every
\* type_changes violation is type_mismatch, and every violation of another
\* type (list_length_changed among them) or without a type is unknown,
\* whatever its path and details.
RemainingKinds ==
    Categorized
        => /\ "type" \in DOMAIN classified
                => /\ classified.type = "dictionary_item_added" => outcome = "extra_field"
                   /\ classified.type = "type_changes" => outcome = "type_mismatch"
                   /\ classified.type \notin NamedTypes => outcome = "unknown"
           /\ "type" \notin DOMAIN classified => outcome = "unknown"

UntypedAtCriticalPath ==
    /\ Categorized
    /\ classified = [path |-> PathId, details |-> DetailsOf(HugeInt, PyInt(5))]
    /\ outcome = "unknown"

(***************************************************************************)
(* The summary of a report (SpecComparator).                               *)
(***************************************************************************)
\* The place of a category's line among the lines the specification lists.
StatedRank ==
    [critical |-> 1, missing_required |-> 2, data_mismatch |-> 3,
     type_mismatch |-> 4, precision |-> 5]

SuccessLine == [what |-> "no_violations", n |-> 0]

\* C24: with no violation the summary is the single success line; otherwise
\* it is the severity-score line followed by one line, stating the count, for
\* each category present among critical, missing_required, data_mismatch,
\* type_mismatch, precision, in that order, and no other line; so the summary
\* is the success line exactly when is_identical is true.
SummaryShape ==
    Compared
        => LET summary == report.summary
               cats == report.categorized_violations
               listed == DOMAIN StatedRank \cap DOMAIN cats
           IN  /\ report.violation_count = 0 => summary = <<SuccessLine>>
               /\ report.violation_count > 0
                     => /\ summary[1] = [what |-> "severity", n |-> report.severity_score]
                        /\ Len(summary) = 1 + Cardinality(listed)
                        /\ \A i \in 2..Len(summary) :
                              /\ summary[i].what \in listed
                              /\ summary[i].n = Len(cats[summary[i].what])
                        /\ \A i, j \in 2..Len(summary) :
                              i < j => StatedRank[summary[i].what] < StatedRank[summary[j].what]
               /\ (summary = <<SuccessLine>>) <=> report.is_identical

UnlistedCategorySummarized ==
    /\ pc = "c1"
    /\ "unknown" \in DOMAIN report.categorized_violations
    /\ Len(report.summary) = 2
    /\ report.summary[2] = [what |-> "data_mismatch", n |-> 1]

(***************************************************************************)
(* The test session: src/tests/test_dolos_vs_blockfrost.py run under the   *)
(* fixtures and hooks of src/tests/conftest.py.  Every test function has   *)
(* the same body: fetch from Dolos, fetch from Blockfrost, assert the two  *)
(* status codes, compare the two bodies, fail on a difference.             *)
(***************************************************************************)
\* tests of one session
MaxTests == 2

\* request.node.name of the collected tests, in collection order
TestNames ==
    <<<<"t", "e", "s", "t", "_", "n", "e", "t", "w", "o", "r", "k", "_", "e", "r", "a", "s">>,
      <<"t", "e", "s", "t", "_", "t", "x", "_", "c", "b", "o", "r">>,
      <<"t", "e", "s", "t", "_", "t", "x", "_", "u", "t", "x", "o", "s">>>>

\* values of datetime.now().isoformat()
Times == {"09:00", "09:01"}

\* A body that Response.json() cannot decode.
NotJson == Node("invalid", "fin", 0, 0, <<>>, <<>>)

Bodies ==
    {PyDict(<<Item(Chars_id, PyStr(Chars_5))>>), PyDict(<<Item(Chars_id, PyInt(5))>>),
     PyList(<<PyStr(<<"1", ".", "5">>)>>), NotJson}

Response(status_code, body) == [status_code |-> status_code, body |-> body]

\* session.get raised instead of returning (no connection, timeout, bad URL)
Raised == [status_code |-> -1]

FetchOutcomes ==
    {Response(status_code, body) : status_code \in {200, 404}, body \in Bodies}
        \cup {Response(500, NotJson), Raised}

\* str.replace(old, new), old not empty
RECURSIVE Replace(_, _, _)
Replace(s, old, new) ==
    IF Len(s) < Len(old) THEN s
    ELSE IF SubSeq(s, 1, Len(old)) = old
    THEN new \o Replace(SubSeq(s, Len(old) + 1, Len(s)), old, new)
    ELSE <<Head(s)>> \o Replace(Tail(s), old, new)

\* test_name.replace("test_", "").replace("_", "/")
EndpointOf(test_name) ==
    Replace(Replace(test_name, <<"t", "e", "s", "t", "_">>, <<>>), <<"_">>, <<"/">>)

RECURSIVE normalize_response(_)
normalize_response(d) ==
    IF IsDictNode(d)
    THEN PyDict([i \in 1..Len(d.kids) |-> Item(d.kids[i].k, normalize_response(d.kids[i].v))])
    ELSE IF IsListNode(d)
    THEN PyList([i \in 1..Len(d.kids) |-> normalize_response(d.kids[i].v)])
    ELSE IF IsStr(d)
    THEN IF Contains(d.s, <<".">>)
         THEN (IF FloatParses(d.s) THEN FloatOf(d.s) ELSE d)
         ELSE (IF IntParses(d.s) THEN IntOf(d.s) ELSE d)
    ELSE d

\* bool(DeepDiff(t1, t2, ignore_order=False)): the diff is not empty.  The
\* bodies of the model hold no NaN and at most one key per mapping, and on
\* those the diff is empty exactly when the two trees are equal.
DeepDiff(t1, t2) == t1 # t2

\* is_identical of APIComparator.compare_responses
compare_responses(dolos, blockfrost) ==
    ~DeepDiff(normalize_response(blockfrost), normalize_response(dolos))

\* The assertion passes whatever the status code.
StatusOk_any(response) == TRUE

\* response.status_code == 200
StatusOk(response) == response.status_code = 200

\* response.json() returns
HasJson(response) == response.body # NotJson

\* ViolationReporter.add_violation
add_violation(reporter, test_name, endpoint, found, now) ==
    [reporter EXCEPT
        !.violations = Append(@, [test_name |-> test_name, endpoint |-> endpoint,
                                  violations |-> found, timestamp |-> now]),
        !.failed_tests = Append(@, test_name)]

\* ViolationReporter.add_passed
add_passed(reporter, test_name, endpoint, now) ==
    [reporter EXCEPT
        !.passed_tests = Append(@, [test_name |-> test_name, endpoint |-> endpoint,
                                    timestamp |-> now])]

\* total_tests counts the passed tests only.
ReportSummary_passed_only(reporter, now) ==
    [total_tests |-> Len(reporter.passed_tests),
     passed |-> Len(reporter.passed_tests),
     failed |-> Len(reporter.failed_tests),
     violation_count |-> Len(reporter.violations),
     generated_at |-> now]

ReportSummary(reporter, now) ==
    [total_tests |-> Len(reporter.passed_tests) + Len(reporter.failed_tests),
     passed |-> Len(reporter.passed_tests),
     failed |-> Len(reporter.failed_tests),
     violation_count |-> Len(reporter.violations),
     generated_at |-> now]

\* ViolationReporter.generate_report: the report built, written and returned
generate_report(reporter, now) ==
    [summary |-> ReportSummary(reporter, now),
     passed_tests |-> reporter.passed_tests,
     violations |-> reporter.violations]

\* The reporter after generate_report: the method reads the three lists and
\* appends to none of them.
ReporterAfterReport(reporter) == reporter

\* What happened: a call phase that ran, or a reporter method that was called.
CallRan(number, result) == [event |-> "call", item |-> number, outcome |-> result]
MethodCalled(method) == [event |-> method, item |-> 0, outcome |-> "none"]

InitSession ==
    /\ pc = "s0"
    /\ hashSeed = "fwd"
    /\ normalize = TRUE
    /\ response1 = NoTree
    /\ response2 = NoTree
    /\ ignore_fields = {}
    /\ Idle

\* pytest_runtest_makereport stores the report of the call phase on the item,
\* and the call phase is over.
EndCall(result) ==
    /\ rep_call' = result
    /\ history' = Append(history, CallRan(item, result))
    /\ pc' = "td"

\* The next test is set up and its call phase begins.
StartTest ==
    /\ pc = "s0"
    /\ item < MaxTests
    /\ item' = item + 1
    /\ rep_call' = NoRep
    /\ pc' = "t0"
    /\ UNCHANGED <<dolos_response, blockfrost_response, comparisons,
                   violation_reporter, session_report, report_file, history>>
    /\ UNCHANGED utilsVars

\* The next test is skipped by a marker (pytest_collection_modifyitems):
\* none of its fixtures is set up and it has no call phase.
SkipTest ==
    /\ pc = "s0"
    /\ item < MaxTests
    /\ item' = item + 1
    /\ rep_call' = NoRep
    /\ UNCHANGED <<pc, dolos_response, blockfrost_response, comparisons,
                   violation_reporter, session_report, report_file, history>>
    /\ UNCHANGED utilsVars

\* dolos_response = dolos_session.get(...)
FetchDolos ==
    /\ pc = "t0"
    /\ \E fetched \in FetchOutcomes :
          /\ dolos_response' = fetched
          /\ IF fetched = Raised
             THEN EndCall("failed")
             ELSE pc' = "t1" /\ UNCHANGED <<rep_call, history>>
    /\ UNCHANGED <<item, blockfrost_response, comparisons, violation_reporter,
                   session_report, report_file>>
    /\ UNCHANGED utilsVars

\* blockfrost_response = blockfrost_session.get(...)
FetchBlockfrost ==
    /\ pc = "t1"
    /\ \E fetched \in FetchOutcomes :
          /\ blockfrost_response' = fetched
          /\ IF fetched = Raised
             THEN EndCall("failed")
             ELSE pc' = "t2" /\ UNCHANGED <<rep_call, history>>
    /\ UNCHANGED <<item, dolos_response, comparisons, violation_reporter,
                   session_report, report_file>>
    /\ UNCHANGED utilsVars

\* assert dolos_response.status_code == 200
AssertDolos ==
    /\ pc = "t2"
    /\ IF StatusOk(dolos_response)
       THEN pc' = "t3" /\ UNCHANGED <<rep_call, history>>
       ELSE EndCall("failed")
    /\ UNCHANGED <<item, dolos_response, blockfrost_response, comparisons,
                   violation_reporter, session_report, report_file>>
    /\ UNCHANGED utilsVars

\* assert blockfrost_response.status_code == 200
AssertBlockfrost ==
    /\ pc = "t3"
    /\ IF StatusOk(blockfrost_response)
       THEN pc' = "t4" /\ UNCHANGED <<rep_call, history>>
       ELSE EndCall("failed")
    /\ UNCHANGED <<item, dolos_response, blockfrost_response, comparisons,
                   violation_reporter, session_report, report_file>>
    /\ UNCHANGED utilsVars

\* api_comparator.compare_responses(dolos_response.json(),
\* blockfrost_response.json(), endpoint), and pytest.fail when the two are
\* not identical.  A body that json() cannot decode ends the test before the
\* comparator is called.
CompareResponses ==
    /\ pc = "t4"
    /\ IF HasJson(dolos_response) /\ HasJson(blockfrost_response)
       THEN /\ comparisons' = comparisons + 1
            /\ EndCall(IF compare_responses(dolos_response.body, blockfrost_response.body)
                       THEN "passed"
                       ELSE "failed")
       ELSE /\ comparisons' = comparisons
            /\ EndCall("failed")
    /\ UNCHANGED <<item, dolos_response, blockfrost_response, violation_reporter,
                   session_report, report_file>>
    /\ UNCHANGED utilsVars

\* log_test_execution after its yield; the test function has returned and its
\* locals are gone.
LogTestExecution ==
    /\ pc = "td"
    /\ IF rep_call # NoRep /\ rep_call = "passed"
       THEN \E now \in Times :
               /\ violation_reporter' =
                      add_passed(violation_reporter, TestNames[item],
                                 EndpointOf(TestNames[item]), now)
               /\ history' = Append(history, MethodCalled("add_passed"))
       ELSE UNCHANGED <<violation_reporter, history>>
    /\ dolos_response' = NoResponse
    /\ blockfrost_response' = NoResponse
    /\ comparisons' = 0
    /\ pc' = "s0"
    /\ UNCHANGED <<item, rep_call, session_report, report_file>>
    /\ UNCHANGED utilsVars

\* generate_violation_report after its yield, at the end of the session
GenerateViolationReport ==
    /\ pc = "s0"
    /\ \E now \in Times :
          /\ session_report' = generate_report(violation_reporter, now)
          /\ report_file' = session_report'
    /\ violation_reporter' = ReporterAfterReport(violation_reporter)
    /\ pc' = "end"
    /\ UNCHANGED <<item, dolos_response, blockfrost_response, comparisons, rep_call,
                   history>>
    /\ UNCHANGED utilsVars

NextSession ==
    \/ StartTest
    \/ SkipTest
    \/ FetchDolos
    \/ FetchBlockfrost
    \/ AssertDolos
    \/ AssertBlockfrost
    \/ CompareResponses
    \/ LogTestExecution
    \/ GenerateViolationReport

SpecSession == InitSession /\ [][NextSession]_vars

Fetched200(response) == response.status_code = 200

\* C25: a test calls the comparator at most once, and only when both the
\* Dolos fetch and the Blockfrost fetch have returned status 200; a test one
\* of whose fetches failed ends, failed, without having called it.
FetchBeforeCompare ==
    /\ comparisons <= 1
    /\ comparisons > 0 => (Fetched200(dolos_response) /\ Fetched200(blockfrost_response))
    /\ (pc = "td" /\ ~(Fetched200(dolos_response) /\ Fetched200(blockfrost_response)))
          => (comparisons = 0 /\ rep_call = "failed")

ComparedAfterBothFetches ==
    /\ pc = "td"
    /\ comparisons = 1
    /\ rep_call = "passed"
    /\ dolos_response.body # blockfrost_response.body

(***************************************************************************)
(* ResponseComparator.compare on a whole-valued float against its string   *)
(* rendering, and on two strings of hex digits.                            *)
(***************************************************************************)
\* str(float(n)) for an integer n of the model: "5.0", "-12.0"
StrOfWholeFloat(n) == StrOfInt(n) \o <<".", "0">>

WholeFloatPair(n, i) ==
    /\ response1 = Shape(i, PyStr(StrOfWholeFloat(n)))
    /\ response2 = Shape(i, PyFloat(n, 0))

WholeFloatInputs == \E n \in Ints : \E i \in 1..3 : WholeFloatPair(n, i)

\* Strings of decimal digits and the hex digit that is also the exponent mark.
DigitLikeHex == UNION {[1..n -> {"0", "1", "5", "e"}] : n \in 1..MaxStrLen}

HexProbes ==
    {<<"5">>, <<"5", "0">>, <<"1">>, <<"0">>, <<"1", "0">>, <<"e", "5">>,
     <<"a", "5">>, <<"A", "5">>}

HashOf(s) == PyDict(<<Item(Chars_hash, PyStr(s))>>)

HexLeafPair(s1, s2) == response1 = HashOf(s1) /\ response2 = HashOf(s2)

HexPairInputs ==
    \E s1 \in DigitLikeHex \cup HexProbes : \E s2 \in HexProbes : HexLeafPair(s1, s2)

InitStrings ==
    /\ pc = "c0"
    /\ WholeFloatInputs \/ HexPairInputs
    /\ normalize \in BOOLEAN
    /\ hashSeed = "fwd"
    /\ ignore_fields = {}
    /\ Idle

NextStrings == Compare

SpecStrings == InitStrings /\ [][NextStrings]_vars

\* C26: with normalization enabled, a tree whose leaf is the string
\* rendering of a whole-valued float ("5.0") compares equal to the same tree
\* with the float itself as leaf.
WholeFloatMatchesString ==
    (pc = "c1" /\ normalize)
        => \A n \in Ints : \A i \in 1..3 :
              WholeFloatPair(n, i) => report.violations = <<>>

\* C26, what the comparison returns instead: the string has become an int,
\* the float has stayed a float, and the pair is one type_changes violation.
WholeFloatTypeChange ==
    (pc = "c1" /\ normalize)
        => \A n \in Ints : \A i \in 1..3 :
              WholeFloatPair(n, i)
                  => /\ report.violation_count = 1
                     /\ report.violations[1].type = "type_changes"
                     /\ report.violations[1].details.expected_type = "int"
                     /\ report.violations[1].details.actual_type = "float"

IsHexPair ==
    /\ IsDictNode(response1)
    /\ Keys(response1) = {Chars_hash}
    /\ HexLike(Lookup(response1, Chars_hash))
    /\ HexLike(Lookup(response2, Chars_hash))

\* C27: with normalization enabled, two strings of hex digits compare equal
\* only if they are equal up to letter case.
HexNotConflated ==
    (pc = "c1" /\ normalize /\ IsHexPair /\ report.violations = <<>>)
        => Lower(Lookup(response1, Chars_hash).s) = Lower(Lookup(response2, Chars_hash).s)

\* C27, off the numeric strings: the same, for two strings of hex digits
\* neither of which float() parses.
HexNotConflatedOffNumbers ==
    (/\ pc = "c1"
     /\ normalize
     /\ IsHexPair
     /\ ~FloatParses(Lookup(response1, Chars_hash).s)
     /\ ~FloatParses(Lookup(response2, Chars_hash).s)
     /\ report.violations = <<>>)
        => Lower(Lookup(response1, Chars_hash).s) = Lower(Lookup(response2, Chars_hash).s)

CallsRun == SelectSeq(history, LAMBDA h : h.event = "call")
CallsNotPassed == SelectSeq(CallsRun, LAMBDA h : h.outcome # "passed")
CallsPassed == SelectSeq(CallsRun, LAMBDA h : h.outcome = "passed")

\* C29: in the report generated at the end of the session, failed counts
\* the tests whose call phase did not pass, and total_tests is the number of
\* tests whose call phase ran.
FailuresRecorded ==
    pc = "end"
        => /\ session_report.summary.failed = Len(CallsNotPassed)
           /\ session_report.summary.total_tests = Len(CallsRun)

\* C29, what the report holds instead: the passed tests only, and no failure
\* whatever the tests did.
OnlyPassedRecorded ==
    pc = "end"
        => /\ session_report.summary.passed = Len(CallsPassed)
           /\ session_report.summary.failed = 0
           /\ session_report.summary.violation_count = 0
           /\ session_report.summary.total_tests = Len(CallsPassed)
           /\ report_file = session_report

(***************************************************************************)
(* One ViolationReporter, its methods called in any order.                 *)
(***************************************************************************)
\* calls of add_violation and add_passed on the reporter
MaxRecords == 3

ReportedNames == {TestNames[1], TestNames[2]}

\* the violations argument of add_violation: a list of messages
FoundLists == {<<>>, <<"Endpoint: /network/eras", "Differences found">>}

InitReporter ==
    /\ pc = "v0"
    /\ hashSeed = "fwd"
    /\ normalize = TRUE
    /\ response1 = NoTree
    /\ response2 = NoTree
    /\ ignore_fields = {}
    /\ Idle

AddViolation ==
    /\ pc \in {"v0", "v1"}
    /\ Len(history) < MaxRecords
    /\ \E test_name \in ReportedNames, found \in FoundLists, now \in Times :
          violation_reporter' =
              add_violation(violation_reporter, test_name, EndpointOf(test_name), found, now)
    /\ history' = Append(history, MethodCalled("add_violation"))
    /\ pc' = "v0"
    /\ UNCHANGED <<item, dolos_response, blockfrost_response, comparisons, rep_call,
                   session_report, report_file>>
    /\ UNCHANGED utilsVars

AddPassed ==
    /\ pc \in {"v0", "v1"}
    /\ Len(history) < MaxRecords
    /\ \E test_name \in ReportedNames, now \in Times :
          violation_reporter' =
              add_passed(violation_reporter, test_name, EndpointOf(test_name), now)
    /\ history' = Append(history, MethodCalled("add_passed"))
    /\ pc' = "v0"
    /\ UNCHANGED <<item, dolos_response, blockfrost_response, comparisons, rep_call,
                   session_report, report_file>>
    /\ UNCHANGED utilsVars

GenerateReport ==
    /\ pc \in {"v0", "v1"}
    /\ \E now \in Times :
          /\ session_report' = generate_report(violation_reporter, now)
          /\ report_file' = session_report'
    /\ violation_reporter' = ReporterAfterReport(violation_reporter)
    /\ pc' = "v1"
    /\ UNCHANGED <<item, dolos_response, blockfrost_response, comparisons, rep_call,
                   history>>
    /\ UNCHANGED utilsVars

NextReporter == AddViolation \/ AddPassed \/ GenerateReport

SpecReporter == InitReporter /\ [][NextReporter]_vars

Called(method) == Len(SelectSeq(history, LAMBDA h : h.event = method))

\* C30: after any sequence of add_violation and add_passed calls, the
\* summary that generate_report returns has passed = the number of
\* add_passed calls, failed = violation_count = the number of add_violation
\* calls and total_tests = passed + failed; and generate_report leaves the
\* recorded lists as they were.
CountersConsistent ==
    pc = "v1"
        => /\ session_report.summary.passed = Called("add_passed")
           /\ session_report.summary.failed = Called("add_violation")
           /\ session_report.summary.violation_count = Called("add_violation")
           /\ session_report.summary.total_tests
                 = session_report.summary.passed + session_report.summary.failed
           /\ violation_reporter.passed_tests = session_report.passed_tests
           /\ violation_reporter.violations = session_report.violations
           /\ Len(violation_reporter.failed_tests) = Called("add_violation")

ReportedAfterMixedCalls ==
    /\ pc = "v1"
    /\ session_report.summary.passed = 1
    /\ session_report.summary.failed = 2
    /\ session_report.summary.total_tests = 3

====
